---------------------------- MODULE Spec2Model ----------------------------
(***************************************************************************)
(* Model of the Apidog sync server: the folder organizer                   *)
(* (analyzeFolders, inferFolderFromPath, proposeReorganization,            *)
(* applyReorganization), the Apidog client (exportSpec, importSpec,        *)
(* mergeAndImport, parseEndpoints) and the tool handlers of handleTool.    *)
(*                                                                         *)
(* A JavaScript string is modelled as the sequence of its characters, each *)
(* character a one-character TLA+ string, so that split, startsWith,       *)
(* toLowerCase, trim and join are computed as the code computes them.      *)
(* A JavaScript object is modelled as an ordered map: the sequence of its  *)
(* <<key, value>> entries in insertion order (the order of Object.entries).*)
(***************************************************************************)
EXTENDS Integers, Sequences, FiniteSets, TLC

VARIABLES
  \* SpecInfer: one call of inferFolderFromPath
  urlPath, inferOptions, inferred, inferPc,
  \* Spec: propose -> apply -> propose again on one document
  document, options, plan, updatedSpec, secondPlan, stage,
  \* SpecApply: one call of applyReorganization on a heap of objects
  heap, specArg, planGiven, argBefore, result, applyPc,
  \* SpecSync: tool calls running against the remote catalog
  remote, importKeepsAbsent, calls, lastWritten,
  \* SpecDiff: one call of deepDiff, then formatDiff on its result
  oldArg, newArg, diffChanges, diffText, diffPc,
  \* SpecAnalyze: one call of analyzeFolders
  endpointList, analyzed, analyzePc

inferVars == <<urlPath, inferOptions, inferred, inferPc>>
planVars  == <<document, options, plan, updatedSpec, secondPlan, stage>>
applyVars == <<heap, specArg, planGiven, argBefore, result, applyPc>>
syncVars  == <<remote, importKeepsAbsent, calls, lastWritten>>
diffVars  == <<oldArg, newArg, diffChanges, diffText, diffPc>>
analyzeVars == <<endpointList, analyzed, analyzePc>>
vars      == <<inferVars, planVars, applyVars, syncVars, diffVars, analyzeVars>>

(***************************************************************************)
(* Bounds of the model.                                                    *)
(***************************************************************************)
\* longest URL path, in segments, handed to inferFolderFromPath in SpecInfer
MaxSegments == 3
\* most endpoints in a document of Spec and of SpecApply
MaxEndpoints == 2
\* most changes in the plan handed to applyReorganization in SpecApply
MaxChanges == 2
\* tool calls in flight at the same time in SpecSync
MaxCalls == 2

(***************************************************************************)
(* Strings.                                                                *)
(***************************************************************************)
UpperCaseLetters ==
  <<"A","B","C","D","E","F","G","H","I","J","K","L","M",
    "N","O","P","Q","R","S","T","U","V","W","X","Y","Z">>
LowerCaseLetters ==
  <<"a","b","c","d","e","f","g","h","i","j","k","l","m",
    "n","o","p","q","r","s","t","u","v","w","x","y","z">>
Digits == {"0","1","2","3","4","5","6","7","8","9"}
WhiteSpace == {" "}

\* the absent value: null and undefined, which the code never tells apart
null == <<"null">>

\* the letter pairs as lookup tables
LowerIndex ==
  [c \in {LowerCaseLetters[i] : i \in 1..26} |->
     CHOOSE i \in 1..26 : LowerCaseLetters[i] = c]
UpperIndex ==
  [c \in {UpperCaseLetters[i] : i \in 1..26} |->
     CHOOSE i \in 1..26 : UpperCaseLetters[i] = c]

charToUpperCase(c) ==
  IF c \in DOMAIN LowerIndex THEN UpperCaseLetters[LowerIndex[c]] ELSE c

charToLowerCase(c) ==
  IF c \in DOMAIN UpperIndex THEN LowerCaseLetters[UpperIndex[c]] ELSE c

toLowerCase(s) == [i \in 1..Len(s) |-> charToLowerCase(s[i])]
toUpperCase(s) == [i \in 1..Len(s) |-> charToUpperCase(s[i])]

\* s.slice(from) with from >= 0 (0-based)
sliceFrom(s, from) == SubSeq(s, from + 1, Len(s))

\* arr.slice(0, end): a negative end counts from the end of the array
sliceTo(arr, end) ==
  IF end >= 0
  THEN SubSeq(arr, 1, IF end < Len(arr) THEN end ELSE Len(arr))
  ELSE SubSeq(arr, 1, Len(arr) + end)

\* s.charAt(0): the empty string when s is empty
charAt0(s) == IF Len(s) = 0 THEN <<>> ELSE <<s[1]>>

startsWith(s, prefix) ==
  /\ Len(prefix) <= Len(s)
  /\ SubSeq(s, 1, Len(prefix)) = prefix

includes(s, c) == \E i \in 1..Len(s) : s[i] = c

\* s.trim() === ''
isBlank(s) == \A i \in 1..Len(s) : s[i] \in WhiteSpace

\* s.split(sep) for a one-character separator
RECURSIVE split(_, _)
split(s, sep) ==
  IF ~includes(s, sep)
  THEN <<s>>
  ELSE LET i == CHOOSE k \in 1..Len(s) :
                  s[k] = sep /\ \A j \in 1..(k - 1) : s[j] # sep
       IN <<SubSeq(s, 1, i - 1)>> \o split(SubSeq(s, i + 1, Len(s)), sep)

\* arr.join(sep)
RECURSIVE join(_, _)
join(arr, sep) ==
  IF Len(arr) = 0 THEN <<>>
  ELSE IF Len(arr) = 1 THEN arr[1]
  ELSE arr[1] \o sep \o join(Tail(arr), sep)

\* arr.filter(Boolean) on an array of strings: the empty string is falsy
filterBoolean(arr) == SelectSeq(arr, LAMBDA s : s # <<>>)

\* /^v\d+$/i.test(s); s is null when the array had no first element, and
\* test() then sees the text "undefined"
isVersionSegment(s) ==
  /\ s # null
  /\ Len(s) >= 2
  /\ s[1] \in {"v", "V"}
  /\ \A i \in 2..Len(s) : s[i] \in Digits

\* segments[0], null when there is none
first(arr) == IF Len(arr) = 0 THEN null ELSE arr[1]

(***************************************************************************)
(* Ordered maps: JavaScript objects with string keys.                      *)
(***************************************************************************)
EmptyObject == <<>>
hasKey(obj, k)  == \E i \in 1..Len(obj) : obj[i][1] = k
indexOf(obj, k) == CHOOSE i \in 1..Len(obj) : obj[i][1] = k
get(obj, k)     == obj[indexOf(obj, k)][2]
\* obj[k] = v: an existing key keeps its place, a new key goes last
put(obj, k, v)  ==
  IF hasKey(obj, k)
  THEN [obj EXCEPT ![indexOf(obj, k)] = <<k, v>>]
  ELSE Append(obj, <<k, v>>)
\* delete obj[k]
remove(obj, k)  == SelectSeq(obj, LAMBDA e : e[1] # k)
keysOf(obj)     == [i \in 1..Len(obj) |-> obj[i][1]]

(***************************************************************************)
(* String constants of the code.                                           *)
(***************************************************************************)
Slash  == "/"
Hyphen == "-"
Space  == " "
Brace  == "{"
strApi   == <<"a", "p", "i">>
strOther == <<"O", "t", "h", "e", "r">>
strNone  == <<"(", "n", "o", "n", "e", ")">>

(***************************************************************************)
(* inferFolderFromPath                                                     *)
(***************************************************************************)
\* word.charAt(0).toUpperCase() + word.slice(1).toLowerCase()
titleCaseWord(word) ==
  toUpperCase(charAt0(word)) \o toLowerCase(sliceFrom(word, 1))

\* s.split('-').map(titleCaseWord).join(' ')
capitalizeSegment(s) ==
  LET words == split(s, Hyphen)
  IN join([i \in 1..Len(words) |-> titleCaseWord(words[i])], <<Space>>)

\* if (stripApiPrefix && segments[0]?.toLowerCase() === 'api') segments.shift()
stripApi(segments, stripApiPrefix) ==
  IF stripApiPrefix /\ first(segments) # null
                    /\ toLowerCase(first(segments)) = strApi
  THEN Tail(segments) ELSE segments

\* if (stripVersion && /^v\d+$/i.test(segments[0])) segments.shift()
stripVersionSegment(segments, stripVersion) ==
  IF stripVersion /\ isVersionSegment(first(segments))
  THEN Tail(segments) ELSE segments

\* segments.filter(s => !s.startsWith('{'))
dropParameters(segments) ==
  SelectSeq(segments, LAMBDA s : ~startsWith(s, <<Brace>>))

\* a variant of dropAction that also drops a hyphenated only segment
mutDropAction(segments) ==
  IF Len(segments) >= 1 /\ includes(segments[Len(segments)], Hyphen)
  THEN SubSeq(segments, 1, Len(segments) - 1)
  ELSE segments

\* if (segments.length > 1) { if (last.includes('-') && ...) segments.pop() }
dropAction(segments) ==
  IF Len(segments) > 1
  THEN IF includes(segments[Len(segments)], Hyphen) /\ Len(segments) > 1
       THEN SubSeq(segments, 1, Len(segments) - 1)
       ELSE segments
  ELSE segments

\* the options record with the defaults of the destructuring
DefaultMaxDepth == 3
inferDefaults ==
  [stripApiPrefix |-> TRUE, stripVersion |-> FALSE,
   maxDepth |-> DefaultMaxDepth, capitalizeSegments |-> TRUE]
\* options given by the caller override the defaults
withDefaults(given, defaults) == given @@ defaults

\* segments.map(...) when capitalizeSegments
capitalizeAll(segments, capitalizeSegments) ==
  IF capitalizeSegments
  THEN [i \in 1..Len(segments) |-> capitalizeSegment(segments[i])]
  ELSE segments

\* the body of inferFolderFromPath, the options being complete
inferWith(path, o) ==
  join(capitalizeAll(
         sliceTo(dropAction(dropParameters(
                   stripVersionSegment(
                     stripApi(filterBoolean(split(path, Slash)),
                              o.stripApiPrefix),
                     o.stripVersion))),
                 o.maxDepth),
         o.capitalizeSegments),
       <<Slash>>)

inferFolderFromPath(path, given) ==
  inferWith(path, withDefaults(given, inferDefaults))


(***************************************************************************)
(* Documents, operations and endpoints.                                    *)
(*                                                                         *)
(* A document is a record that may or may not have a paths field; paths is *)
(* an ordered map path -> (ordered map method -> operation).  An operation *)
(* is a record whose optional fields are present in its domain or not.     *)
(***************************************************************************)
hasField(rec, f) == f \in DOMAIN rec
field(rec, f)    == IF hasField(rec, f) THEN rec[f] ELSE null
\* a string value is truthy unless it is absent or empty
truthy(v)        == v # null /\ v # <<>>
\* a || b on string-or-null values
orElse(a, b)     == IF truthy(a) THEN a ELSE b

mGet  == <<"g", "e", "t">>
mPost == <<"p", "o", "s", "t">>
HttpMethods ==
  {mGet, mPost, <<"p","u","t">>, <<"p","a","t","c","h">>,
   <<"d","e","l","e","t","e">>, <<"h","e","a","d">>,
   <<"o","p","t","i","o","n","s">>}

\* spec.paths || {}
pathsOf(spec) == IF hasField(spec, "paths") THEN spec.paths ELSE EmptyObject

\* whether spec.paths?.[path]?.[method] resolves (an operation is an
\* object, so it is truthy whenever it is there)
resolves(spec, path, method) ==
  hasKey(pathsOf(spec), path) /\ hasKey(get(pathsOf(spec), path), method)

\* spec.paths[path][method], where it resolves
operationAt(spec, path, method) == get(get(pathsOf(spec), path), method)

\* the endpoints of one path item, in the order of its method keys
endpointsOfPath(path, methods) ==
  LET verbs == SelectSeq(methods, LAMBDA e : e[1] \in HttpMethods)
  IN [i \in 1..Len(verbs) |->
        [method    |-> toUpperCase(verbs[i][1]),
         path      |-> path,
         summary   |-> orElse(field(verbs[i][2], "summary"), <<>>),
         folder    |-> orElse(field(verbs[i][2], "x-apidog-folder"), null),
         operation |-> verbs[i][2]]]

RECURSIVE flatten(_)
flatten(lists) ==
  IF Len(lists) = 0 THEN <<>> ELSE lists[1] \o flatten(Tail(lists))

\* ApidogClient.parseEndpoints (description, tags, deprecated, status and
\* maintainer are copied the same way and are read by no planner code)
parseEndpoints(spec) ==
  LET paths == pathsOf(spec)
  IN flatten([i \in 1..Len(paths) |->
                endpointsOfPath(paths[i][1], paths[i][2])])

(***************************************************************************)
(* proposeReorganization                                                   *)
(***************************************************************************)
planDefaults ==
  [strategy |-> "path-based", groupByVersion |-> FALSE,
   stripApiPrefix |-> TRUE, maxDepth |-> DefaultMaxDepth,
   customMappings |-> EmptyObject]

\* ep.folder || ep.operation?.['x-apidog-folder'] || null
currentFolderOf(ep) ==
  orElse(ep.folder, orElse(field(ep.operation, "x-apidog-folder"), null))

\* a find that returns the last matching entry
mutMatchedMapping(customMappings, path) ==
  LET hits == SelectSeq(customMappings, LAMBDA e : startsWith(path, e[1]))
  IN IF Len(hits) = 0 THEN null ELSE hits[Len(hits)]

\* Object.entries(customMappings).find(([prefix]) => ep.path.startsWith(prefix))
matchedMapping(customMappings, path) ==
  LET hits == SelectSeq(customMappings, LAMBDA e : startsWith(path, e[1]))
  IN IF Len(hits) = 0 THEN null ELSE hits[1]

\* a path-based branch that strips the version when groupByVersion is set
mutPathBasedFolder(ep, o) ==
  inferFolderFromPath(ep.path,
    [stripApiPrefix |-> o.stripApiPrefix,
     stripVersion   |-> o.groupByVersion,
     maxDepth       |-> o.maxDepth])

\* case 'path-based'
pathBasedFolder(ep, o) ==
  inferFolderFromPath(ep.path,
    [stripApiPrefix |-> o.stripApiPrefix,
     stripVersion   |-> ~o.groupByVersion,
     maxDepth       |-> o.maxDepth])

\* a preserve-top-level branch whose sub-path follows groupByVersion
mutPreserveTopLevelFolder(ep, o) ==
  IF truthy(currentFolderOf(ep))
  THEN split(currentFolderOf(ep), Slash)[1] \o <<Slash>> \o
       inferFolderFromPath(ep.path,
         [stripApiPrefix |-> o.stripApiPrefix,
          stripVersion   |-> ~o.groupByVersion,
          maxDepth       |-> o.maxDepth - 1])
  ELSE inferFolderFromPath(ep.path,
         [stripApiPrefix |-> o.stripApiPrefix,
          stripVersion   |-> ~o.groupByVersion,
          maxDepth       |-> o.maxDepth])

\* case 'preserve-top-level'
preserveTopLevelFolder(ep, o) ==
  LET currentFolder == currentFolderOf(ep)
  IN IF truthy(currentFolder)
     THEN LET topLevel    == split(currentFolder, Slash)[1]
              inferredSub == inferFolderFromPath(ep.path,
                               [stripApiPrefix |-> o.stripApiPrefix,
                                stripVersion   |-> TRUE,
                                maxDepth       |-> o.maxDepth - 1])
          IN topLevel \o <<Slash>> \o inferredSub
     ELSE inferFolderFromPath(ep.path,
            [stripApiPrefix |-> o.stripApiPrefix,
             stripVersion   |-> ~o.groupByVersion,
             maxDepth       |-> o.maxDepth])

\* w.charAt(0).toUpperCase() + w.slice(1)
upperFirst(w) == toUpperCase(charAt0(w)) \o sliceFrom(w, 1)

\* case 'flat'
flatFolder(ep, o) ==
  LET segments == SelectSeq(split(ep.path, Slash),
                    LAMBDA s : /\ s # <<>>
                               /\ ~startsWith(s, <<Brace>>)
                               /\ toLowerCase(s) # strApi
                               /\ ~isVersionSegment(s))
  IN IF Len(segments) > 0 /\ segments[1] # <<>>
     THEN LET words == split(segments[1], Hyphen)
          IN join([i \in 1..Len(words) |-> upperFirst(words[i])], <<Space>>)
     ELSE strOther

\* default: of the switch
defaultFolder(ep, o) ==
  inferFolderFromPath(ep.path,
    [stripApiPrefix |-> o.stripApiPrefix, maxDepth |-> o.maxDepth])

\* switch (strategy)
strategyFolder(ep, o) ==
  CASE o.strategy = "path-based"         -> pathBasedFolder(ep, o)
    [] o.strategy = "preserve-top-level" -> preserveTopLevelFolder(ep, o)
    [] o.strategy = "flat"               -> flatFolder(ep, o)
    [] OTHER                             -> defaultFolder(ep, o)

\* if (!newFolder || newFolder.trim() === '') newFolder = 'Other'
coerceOther(newFolder) ==
  IF ~truthy(newFolder) \/ isBlank(newFolder) THEN strOther ELSE newFolder

\* the folder proposed for one endpoint
newFolderOf(ep, o) ==
  LET m == matchedMapping(o.customMappings, ep.path)
  IN coerceOther(IF m # null THEN m[2] ELSE strategyFolder(ep, o))

endpointRef(ep) == [method |-> ep.method, path |-> ep.path, summary |-> ep.summary]

\* a record that files an endpoint without a folder as unchanged
mutPlanRecord(acc, ep, currentFolder, newFolder) ==
  LET listed   == IF hasKey(acc.proposedFolders, newFolder)
                  THEN get(acc.proposedFolders, newFolder) ELSE <<>>
      proposed == put(acc.proposedFolders, newFolder,
                      Append(listed, endpointRef(ep)))
  IN IF currentFolder = newFolder \/ ~truthy(currentFolder)
     THEN [acc EXCEPT !.proposedFolders = proposed,
                      !.unchanged = Append(@,
                         [method |-> ep.method, path |-> ep.path,
                          folder |-> currentFolder])]
     ELSE [acc EXCEPT !.proposedFolders = proposed,
                      !.changes = Append(@,
                         [method    |-> ep.method,
                          path      |-> ep.path,
                          summary   |-> ep.summary,
                          oldFolder |-> orElse(currentFolder, strNone),
                          newFolder |-> newFolder])]

\* proposedFolders[newFolder].push(ep), and the push to unchanged or to
\* changes
planRecord(acc, ep, currentFolder, newFolder) ==
  LET listed   == IF hasKey(acc.proposedFolders, newFolder)
                  THEN get(acc.proposedFolders, newFolder) ELSE <<>>
      proposed == put(acc.proposedFolders, newFolder,
                      Append(listed, endpointRef(ep)))
  IN IF currentFolder = newFolder
     THEN [acc EXCEPT !.proposedFolders = proposed,
                      !.unchanged = Append(@,
                         [method |-> ep.method, path |-> ep.path,
                          folder |-> currentFolder])]
     ELSE [acc EXCEPT !.proposedFolders = proposed,
                      !.changes = Append(@,
                         [method    |-> ep.method,
                          path      |-> ep.path,
                          summary   |-> ep.summary,
                          oldFolder |-> orElse(currentFolder, strNone),
                          newFolder |-> newFolder])]

\* one turn of the loop over the endpoints
planStep(acc, ep, o) ==
  planRecord(acc, ep, currentFolderOf(ep), newFolderOf(ep, o))

RECURSIVE planLoop(_, _, _)
planLoop(acc, endpoints, o) ==
  IF Len(endpoints) = 0 THEN acc
  ELSE planLoop(planStep(acc, endpoints[1], o), Tail(endpoints), o)

\* the object proposeReorganization returns
planResult(strategy, endpoints, acc) ==
  [strategy        |-> strategy,
   totalEndpoints  |-> Len(endpoints),
   changesCount    |-> Len(acc.changes),
   unchangedCount  |-> Len(acc.unchanged),
   proposedFolders |-> acc.proposedFolders,
   changes         |-> acc.changes,
   unchanged       |-> acc.unchanged]

\* the loop of proposeReorganization, the options being complete
planWith(endpoints, o) ==
  planResult(o.strategy, endpoints,
             planLoop([proposedFolders |-> EmptyObject,
                       changes |-> <<>>, unchanged |-> <<>>], endpoints, o))

proposeReorganization(endpoints, given) ==
  planWith(endpoints, withDefaults(given, planDefaults))

(***************************************************************************)
(* applyReorganization                                                     *)
(***************************************************************************)
\* updatedSpec.paths[path][method]['x-apidog-folder'] = newFolder
setFolder(spec, path, method, newFolder) ==
  LET op == operationAt(spec, path, method)
  IN [spec EXCEPT !.paths =
        put(@, path, put(get(@, path), method,
                         ("x-apidog-folder" :> newFolder) @@ op))]

\* one turn of the loop over plan.changes
applyChange(spec, change) ==
  LET method == toLowerCase(change.method)
  IN IF resolves(spec, change.path, method)
     THEN setFolder(spec, change.path, method, change.newFolder)
     ELSE spec

RECURSIVE applyLoop(_, _)
applyLoop(spec, changes) ==
  IF Len(changes) = 0 THEN spec
  ELSE applyLoop(applyChange(spec, changes[1]), Tail(changes))

\* the copy of JSON.parse(JSON.stringify(spec)) is equal to spec for a
\* document made of strings, arrays and objects
applyReorganization(spec, planArg) == applyLoop(spec, planArg.changes)


(***************************************************************************)
(* Inputs.                                                                 *)
(***************************************************************************)
SeqsUpTo(S, n) == UNION {[1..k -> S] : k \in 0..n}

segApi      == strApi
segV1       == <<"v", "1">>
segUsers    == <<"u", "s", "e", "r", "s">>
segId       == <<"{", "i", "d", "}">>
segReset    == <<"r", "e", "s", "e", "t", "-", "p", "a", "s", "s", "w", "o", "r", "d">>
segAdmin    == <<"a", "d", "m", "i", "n">>
segBilling  == <<"b", "i", "l", "l", "i", "n", "g">>
segValidate == <<"v", "a", "l", "i", "d", "a", "t", "e", "-", "p", "e", "p", "p", "o", "l", "-", "i", "d">>
segAuth     == <<"a", "u", "t", "h">>
segLogin    == <<"l", "o", "g", "i", "n">>

\* "/" + segment for each segment; an empty segment gives a doubled or a
\* trailing slash
pathOf(segments) ==
  join([i \in 1..Len(segments) |-> <<Slash>> \o segments[i]], <<>>)

SegmentPool == {segApi, segV1, segUsers, segId, segReset, <<>>}

pathPeppol == pathOf(<<segApi, segV1, segAdmin, segBilling, segValidate>>)
pathLogin  == pathOf(<<segAuth, segLogin>>)

InferPaths ==
  {pathOf(s) : s \in SeqsUpTo(SegmentPool, MaxSegments)}
    \cup {pathPeppol, pathLogin}

\* the options a caller may give: none, or all four
InferOptionSets ==
  {<<>>} \cup
  [stripApiPrefix : BOOLEAN, stripVersion : BOOLEAN,
   maxDepth : 0..DefaultMaxDepth, capitalizeSegments : BOOLEAN]

(***************************************************************************)
(* SpecInfer: inferFolderFromPath on every path and option set.            *)
(***************************************************************************)
DiffIdle ==
  /\ oldArg = <<>> /\ newArg = <<>> /\ diffChanges = <<>>
  /\ diffText = <<>> /\ diffPc = "idle"

AnalyzeIdle ==
  /\ endpointList = <<>> /\ analyzed = <<>> /\ analyzePc = "idle"

SyncIdle ==
  /\ remote = <<>> /\ importKeepsAbsent = FALSE
  /\ calls = <<>> /\ lastWritten = <<>>

ApplyIdle ==
  /\ heap = <<>> /\ specArg = null /\ planGiven = <<>>
  /\ argBefore = null /\ result = null /\ applyPc = "idle"

PlanIdle ==
  /\ document = <<>> /\ options = <<>> /\ plan = <<>>
  /\ updatedSpec = <<>> /\ secondPlan = <<>> /\ stage = "idle"

InferInit ==
  /\ urlPath \in InferPaths
  /\ inferOptions \in InferOptionSets
  /\ inferred = null
  /\ inferPc = "call"
  /\ PlanIdle
  /\ ApplyIdle
  /\ SyncIdle
  /\ DiffIdle
  /\ AnalyzeIdle

Infer ==
  /\ inferPc = "call"
  /\ inferred' = inferFolderFromPath(urlPath, inferOptions)
  /\ inferPc' = "return"
  /\ UNCHANGED <<urlPath, inferOptions, planVars, applyVars, syncVars, diffVars, analyzeVars>>

InferNext == Infer

SpecInfer == InferInit /\ [][InferNext]_vars


(***************************************************************************)
(* Spec: a document is exported, a plan is proposed for its endpoints, the *)
(* plan is applied, and a plan is proposed again for the updated document  *)
(* with the same options.                                                  *)
(***************************************************************************)
pathUserById  == pathOf(<<segApi, segV1, segUsers, segId>>)
pathReset     == pathOf(<<segApi, segV1, segUsers, segReset>>)
pathParamOnly == pathOf(<<segApi, segV1, segId>>)
pathAdminBilling == pathOf(<<segApi, segV1, segAdmin, segBilling>>)
pathResetById    == pathOf(<<segApi, segReset, segId>>)

folderUsers  == <<"U", "s", "e", "r", "s">>
folderLegacy == <<"L", "e", "g", "a", "c", "y", "/", "O", "l", "d">>
folderAccounts == <<"A", "c", "c", "o", "u", "n", "t", "s">>

opPlain == [summary |-> <<"s">>]
opIn(folder) == ("x-apidog-folder" :> folder) @@ opPlain
keyParameters == <<"p", "a", "r", "a", "m", "e", "t", "e", "r", "s">>

\* the entries <<path, method key, value>> a document is built from
EntryPool ==
  ({pathUserById, pathReset, pathLogin, pathParamOnly} \X {mGet}
      \X {opPlain, opIn(folderUsers), opIn(folderLegacy)})
  \cup {<<pathUserById, mPost, opPlain>>,
        <<pathAdminBilling, mGet, opPlain>>,
        <<pathResetById, mGet, opPlain>>,
        <<pathLogin, mPost, opIn(<<>>)>>,
        <<pathLogin, keyParameters, opPlain>>}

\* spec.paths[path][method] = value, creating the path item when missing
putEntry(spec, e) ==
  LET item == IF hasKey(spec.paths, e[1]) THEN get(spec.paths, e[1])
              ELSE EmptyObject
  IN [spec EXCEPT !.paths = put(@, e[1], put(item, e[2], e[3]))]

RECURSIVE buildSpec(_, _)
buildSpec(spec, entries) ==
  IF Len(entries) = 0 THEN spec
  ELSE buildSpec(putEntry(spec, entries[1]), Tail(entries))

distinctKeys(entries) ==
  \A i, j \in 1..Len(entries) :
    i # j => <<entries[i][1], entries[i][2]>> # <<entries[j][1], entries[j][2]>>

\* the exported documents: one without a paths field, and every document
\* of at most MaxEndpoints entries
Documents ==
  {[openapi |-> <<"3">>]} \cup
  {buildSpec([openapi |-> <<"3">>, paths |-> EmptyObject], es) :
     es \in {s \in SeqsUpTo(EntryPool, MaxEndpoints) : distinctKeys(s)}}

mappingsUsers ==
  << <<pathReset, folderAccounts>>,
     <<pathOf(<<segApi, segV1, segUsers>>), <<Space>>>>,
     <<pathOf(<<segAuth>>), strNone>> >>

PlanOptionSets ==
  [strategy : {"path-based", "preserve-top-level", "flat", "by-tag"},
   groupByVersion : BOOLEAN, stripApiPrefix : BOOLEAN,
   maxDepth : 1..DefaultMaxDepth,
   customMappings : {EmptyObject, mappingsUsers}]

InferIdle ==
  /\ urlPath = <<>> /\ inferOptions = <<>> /\ inferred = null
  /\ inferPc = "idle"

Init ==
  /\ document \in Documents
  /\ options \in PlanOptionSets
  /\ plan = <<>> /\ updatedSpec = <<>> /\ secondPlan = <<>>
  /\ stage = "exported"
  /\ InferIdle
  /\ ApplyIdle
  /\ SyncIdle
  /\ DiffIdle
  /\ AnalyzeIdle

Propose ==
  /\ stage = "exported"
  /\ plan' = proposeReorganization(parseEndpoints(document), options)
  /\ stage' = "proposed"
  /\ UNCHANGED <<document, options, updatedSpec, secondPlan, inferVars, applyVars, syncVars, diffVars, analyzeVars>>

Apply ==
  /\ stage = "proposed"
  /\ updatedSpec' = applyReorganization(document, plan)
  /\ stage' = "applied"
  /\ UNCHANGED <<document, options, plan, secondPlan, inferVars, applyVars, syncVars, diffVars, analyzeVars>>

ProposeAgain ==
  /\ stage = "applied"
  /\ secondPlan' = proposeReorganization(parseEndpoints(updatedSpec), options)
  /\ stage' = "proposedAgain"
  /\ UNCHANGED <<document, options, plan, updatedSpec, inferVars, applyVars, syncVars, diffVars, analyzeVars>>

Next == Propose \/ Apply \/ ProposeAgain

Spec == Init /\ [][Next]_vars


(***************************************************************************)
(* Claims about the planner and the applier (Spec).                        *)
(***************************************************************************)
KnownStrategies == {"path-based", "preserve-top-level", "flat"}

\* C1: once the changes of a plan have been applied, planning again with
\* the same options on the endpoints of the updated document proposes no
\* change, for every strategy and also for endpoints that had no folder.
C1_IdempotentAfterApply ==
  stage = "proposedAgain" => Len(secondPlan.changes) = 0

\* C2: a strategy outside path-based, preserve-top-level and flat proposes
\* for every endpoint the folder that path-based proposes with the same
\* groupByVersion, stripApiPrefix, maxDepth and customMappings.
C2_UnknownStrategyIsPathBased ==
  (stage = "proposed" /\ options.strategy \notin KnownStrategies) =>
    LET pathBased == proposeReorganization(parseEndpoints(document),
                       [options EXCEPT !.strategy = "path-based"])
    IN /\ plan.proposedFolders = pathBased.proposedFolders
       /\ plan.changes = pathBased.changes
       /\ plan.unchanged = pathBased.unchanged

\* C3: every Change of a plan has oldFolder different from newFolder, also
\* for endpoints without a folder and for folders given by customMappings.
C3_ChangeMovesEndpoint ==
  stage = "proposed" =>
    \A i \in 1..Len(plan.changes) :
      plan.changes[i].oldFolder # plan.changes[i].newFolder

\* a FolderPath: not blank, and no empty segment between slashes
wellFormedFolder(f) ==
  /\ ~isBlank(f)
  /\ \A i \in 1..Len(split(f, Slash)) : split(f, Slash)[i] # <<>>

\* C4: every folder a strategy proposes (no custom mapping matched) is a
\* well-formed FolderPath: not blank and without an empty segment.
C4_ProposedFolderWellFormed ==
  stage = "proposed" =>
    \A i \in 1..Len(plan.proposedFolders) :
      \A j \in 1..Len(plan.proposedFolders[i][2]) :
        matchedMapping(options.customMappings,
                       plan.proposedFolders[i][2][j].path) = null
          => wellFormedFolder(plan.proposedFolders[i][1])

\* the folders under which a plan lists an endpoint
proposedFor(p, ep) ==
  {p.proposedFolders[i][1] :
     i \in {i \in 1..Len(p.proposedFolders) :
              \E j \in 1..Len(p.proposedFolders[i][2]) :
                p.proposedFolders[i][2][j] = endpointRef(ep)}}

unmapped(ep) == matchedMapping(options.customMappings, ep.path) = null

\* the segments of a path that are not empty, not a parameter, not 'api'
\* and not a version
resourceSegments(path) ==
  SelectSeq(split(path, Slash),
            LAMBDA s : /\ s # <<>>
                       /\ ~startsWith(s, <<Brace>>)
                       /\ toLowerCase(s) # strApi
                       /\ ~isVersionSegment(s))

\* C11: with strategy 'flat', an endpoint that matches no custom mapping is
\* proposed the first segment of its path that is no parameter, no 'api'
\* and no version, title-cased as one word with its hyphens kept, or
\* "Other" when there is no such segment.
C11_FlatKeepsHyphens ==
  (stage = "proposed" /\ options.strategy = "flat") =>
    \A k \in 1..Len(parseEndpoints(document)) :
      LET ep == parseEndpoints(document)[k]
      IN unmapped(ep) =>
           proposedFor(plan, ep) =
             {IF Len(resourceSegments(ep.path)) = 0 THEN strOther
              ELSE titleCaseWord(resourceSegments(ep.path)[1])}

inferredSubPath(ep) ==
  inferFolderFromPath(ep.path,
    [stripApiPrefix |-> options.stripApiPrefix,
     stripVersion   |-> TRUE,
     maxDepth       |-> options.maxDepth - 1])

pathBasedExpected(ep) ==
  coerceOther(inferFolderFromPath(ep.path,
    [stripApiPrefix |-> options.stripApiPrefix,
     stripVersion   |-> ~options.groupByVersion,
     maxDepth       |-> options.maxDepth]))

\* C12: with strategy 'preserve-top-level', an endpoint that has a folder
\* and matches no custom mapping is proposed <first segment of its folder>/
\* <folder inferred with maxDepth - 1 and the version stripped>, whatever
\* groupByVersion is, so the top-level segment stays; an endpoint without
\* a folder is proposed what 'path-based' proposes with the same options.
C12_PreserveTopLevel ==
  (stage = "proposed" /\ options.strategy = "preserve-top-level") =>
    \A k \in 1..Len(parseEndpoints(document)) :
      LET ep == parseEndpoints(document)[k]
      IN unmapped(ep) =>
           IF truthy(currentFolderOf(ep))
           THEN /\ proposedFor(plan, ep) =
                     {split(currentFolderOf(ep), Slash)[1] \o <<Slash>>
                        \o inferredSubPath(ep)}
                /\ \A f \in proposedFor(plan, ep) :
                     split(f, Slash)[1] = split(currentFolderOf(ep), Slash)[1]
           ELSE proposedFor(plan, ep) = {pathBasedExpected(ep)}

\* an endpoint with a folder and a versioned path is planned with
\* groupByVersion set, and one without a folder is planned too
C12_Witness ==
  /\ stage = "proposed" /\ options.strategy = "preserve-top-level"
  /\ options.groupByVersion /\ options.maxDepth > 1
  /\ \E k \in 1..Len(parseEndpoints(document)) :
       /\ parseEndpoints(document)[k].path = pathUserById
       /\ truthy(currentFolderOf(parseEndpoints(document)[k]))
       /\ unmapped(parseEndpoints(document)[k])
  /\ \E k \in 1..Len(parseEndpoints(document)) :
       /\ ~truthy(currentFolderOf(parseEndpoints(document)[k]))
       /\ unmapped(parseEndpoints(document)[k])

folderAdminBilling ==
  <<"A", "d", "m", "i", "n", "/", "B", "i", "l", "l", "i", "n", "g">>
folderV1 == <<"V", "1">>

\* C13: with strategy 'path-based', an endpoint that matches no custom
\* mapping is proposed inferFolderFromPath(path, {stripApiPrefix,
\* stripVersion: not groupByVersion, maxDepth}), or "Other" when that is
\* blank; /api/v1/admin/billing goes to Admin/Billing with the default
\* options and keeps V1 as its first folder segment with groupByVersion.
C13_PathBased ==
  (stage = "proposed" /\ options.strategy = "path-based") =>
    \A k \in 1..Len(parseEndpoints(document)) :
      LET ep == parseEndpoints(document)[k]
      IN unmapped(ep) =>
           /\ proposedFor(plan, ep) = {pathBasedExpected(ep)}
           /\ (/\ ep.path = pathAdminBilling
               /\ ~options.groupByVersion /\ options.stripApiPrefix
               /\ options.maxDepth = DefaultMaxDepth)
              => proposedFor(plan, ep) = {folderAdminBilling}
           /\ (/\ ep.path = pathAdminBilling
               /\ options.groupByVersion /\ options.stripApiPrefix)
              => \A f \in proposedFor(plan, ep) : split(f, Slash)[1] = folderV1

\* /api/v1/admin/billing has been planned path-based with groupByVersion
C13_Witness ==
  /\ stage = "proposed" /\ options.strategy = "path-based"
  /\ options.groupByVersion /\ options.stripApiPrefix
  /\ \E k \in 1..Len(parseEndpoints(document)) :
       /\ parseEndpoints(document)[k].path = pathAdminBilling
       /\ unmapped(parseEndpoints(document)[k])

\* the indexes of the mappings whose prefix starts the path
matchingPrefixes(path) ==
  {i \in 1..Len(options.customMappings) :
     startsWith(path, options.customMappings[i][1])}

\* C14: an endpoint whose path starts with a mapping prefix is proposed
\* the folder of the first-declared such prefix ("Other" when it is
\* blank), whatever the strategy and the other options; an endpoint that
\* matches no prefix is proposed the folder of the strategy.
C14_MappingsFirst ==
  stage = "proposed" =>
    \A k \in 1..Len(parseEndpoints(document)) :
      LET ep == parseEndpoints(document)[k]
          matching == matchingPrefixes(ep.path)
      IN IF matching # {}
         THEN \E i \in matching :
                /\ \A j \in matching : i <= j
                /\ proposedFor(plan, ep) =
                     {coerceOther(options.customMappings[i][2])}
         ELSE proposedFor(plan, ep) = {coerceOther(strategyFolder(ep, options))}

\* an endpoint whose path starts with two of the prefixes has been planned
C14_Witness ==
  /\ stage = "proposed"
  /\ \E k \in 1..Len(parseEndpoints(document)) :
       Cardinality(matchingPrefixes(parseEndpoints(document)[k].path)) > 1


(***************************************************************************)
(* Claims about inferFolderFromPath (SpecInfer).                           *)
(***************************************************************************)
folderV1AdminBilling ==
  <<"V", "1", "/", "A", "d", "m", "i", "n", "/",
    "B", "i", "l", "l", "i", "n", "g">>
folderAuthLogin == <<"A", "u", "t", "h", "/", "L", "o", "g", "i", "n">>

noOptionsGiven == DOMAIN inferOptions = {}

\* the segments left after prefix and version stripping and the removal of
\* parameter segments
segmentsBeforeAction ==
  LET o == withDefaults(inferOptions, inferDefaults)
  IN dropParameters(
       stripVersionSegment(
         stripApi(filterBoolean(split(urlPath, Slash)), o.stripApiPrefix),
         o.stripVersion))

\* the folder made of the first maxDepth of the given segments
folderOfSegments(segments) ==
  LET o     == withDefaults(inferOptions, inferDefaults)
      shown == sliceTo(segments, o.maxDepth)
  IN join(IF o.capitalizeSegments
          THEN [i \in 1..Len(shown) |-> capitalizeSegment(shown[i])]
          ELSE shown, <<Slash>>)

keyOpenapi == <<"o", "p", "e", "n", "a", "p", "i">>
keyPaths   == <<"p", "a", "t", "h", "s">>
keySummary == <<"s", "u", "m", "m", "a", "r", "y">>
keyFolder  ==
  <<"x", "-", "a", "p", "i", "d", "o", "g", "-", "f", "o", "l", "d", "e", "r">>
keyMark    == <<"x", "-", "m", "a", "r", "k">>

isRef(v) == v[1] = "ref"

\* JSON.parse: a fresh object for every object of the tree
RECURSIVE parseTree(_, _)
RECURSIVE parseEntries(_, _, _)
parseTree(h, tree) ==
  IF tree[1] = "str"
  THEN [heap |-> h, value |-> tree]
  ELSE LET r == parseEntries(h, tree[2], <<>>)
       IN [heap  |-> Append(r.heap, r.entries),
           value |-> <<"ref", Len(r.heap) + 1>>]
parseEntries(h, entries, done) ==
  IF Len(entries) = 0
  THEN [heap |-> h, entries |-> done]
  ELSE LET c == parseTree(h, entries[1][2])
       IN parseEntries(c.heap, Tail(entries),
                       Append(done, <<entries[1][1], c.value>>))

\* JSON.stringify: the tree below a value
RECURSIVE stringify(_, _)
stringify(h, v) ==
  IF isRef(v)
  THEN <<"obj", [i \in 1..Len(h[v[2]]) |->
                   <<h[v[2]][i][1], stringify(h, h[v[2]][i][2])>>]>>
  ELSE v

\* the addresses of the objects below a value
RECURSIVE reachable(_, _)
reachable(h, v) ==
  IF isRef(v)
  THEN {v[2]} \cup UNION {reachable(h, h[v[2]][i][2]) : i \in 1..Len(h[v[2]])}
  ELSE {}

\* a copy that shares every object below the top one: { ...spec }
mutJsonClone(h, v) ==
  [heap |-> Append(h, h[v[2]]), value |-> <<"ref", Len(h) + 1>>]

\* JSON.parse(JSON.stringify(spec))
jsonClone(h, v) == parseTree(h, stringify(h, v))

\* the address of updatedSpec.paths?.[path]?.[method], 0 when it does not
\* resolve
resolveOnHeap(h, root, path, method) ==
  IF ~hasKey(h[root], keyPaths) THEN 0
  ELSE LET paths == h[get(h[root], keyPaths)[2]]
       IN IF ~hasKey(paths, path) THEN 0
          ELSE LET item == h[get(paths, path)[2]]
               IN IF ~hasKey(item, method) THEN 0
                  ELSE get(item, method)[2]

\* one turn of the loop, without the lower-casing of the method
mutApplyChangeOnHeap(h, root, change) ==
  LET a == resolveOnHeap(h, root, change.path, change.method)
  IN IF a # 0
     THEN [h EXCEPT ![a] = put(@, keyFolder, <<"str", change.newFolder>>)]
     ELSE h

\* one turn of the loop over plan.changes
applyChangeOnHeap(h, root, change) ==
  LET a == resolveOnHeap(h, root, change.path, toLowerCase(change.method))
  IN IF a # 0
     THEN [h EXCEPT ![a] = put(@, keyFolder, <<"str", change.newFolder>>)]
     ELSE h

RECURSIVE applyLoopOnHeap(_, _, _)
applyLoopOnHeap(h, root, changes) ==
  IF Len(changes) = 0 THEN h
  ELSE applyLoopOnHeap(applyChangeOnHeap(h, root, changes[1]), root,
                       Tail(changes))

\* applyReorganization: the heap after the call and the value returned
applyReorganizationOnHeap(h, spec, planArg) ==
  LET c == jsonClone(h, spec)
  IN [heap  |-> applyLoopOnHeap(c.heap, c.value[2], planArg.changes),
      value |-> c.value]

\* the tree of a document of Spec
operationTree(op) ==
  <<"obj",
    (IF hasField(op, "summary")
     THEN << <<keySummary, <<"str", op.summary>>>> >> ELSE <<>>)
    \o (IF hasField(op, "x-apidog-folder")
        THEN << <<keyFolder, <<"str", op["x-apidog-folder"]>>>> >> ELSE <<>>)>>
pathItemTree(item) ==
  <<"obj", [i \in 1..Len(item) |-> <<item[i][1], operationTree(item[i][2])>>]>>
documentTree(spec) ==
  <<"obj",
    << <<keyOpenapi, <<"str", spec.openapi>>>> >>
    \o (IF hasField(spec, "paths")
        THEN << <<keyPaths,
                  <<"obj", [i \in 1..Len(spec.paths) |->
                     <<spec.paths[i][1], pathItemTree(spec.paths[i][2])>>]>>
                >> >>
        ELSE <<>>)>>

(***************************************************************************)
(* SpecApply: applyReorganization(spec, plan) on the heap, after which the *)
(* caller writes into the returned document.                               *)
(***************************************************************************)
ApplyEntryPool ==
  {<<pathUserById, mGet, opPlain>>,
   <<pathUserById, mPost, opIn(folderLegacy)>>,
   <<pathLogin, mGet, opIn(folderUsers)>>,
   <<pathLogin, keyParameters, opPlain>>}

ApplyDocuments ==
  {[openapi |-> <<"3">>]} \cup
  {buildSpec([openapi |-> <<"3">>, paths |-> EmptyObject], es) :
     es \in {s \in SeqsUpTo(ApplyEntryPool, MaxEndpoints) : distinctKeys(s)}}

changeOf(method, path, newFolder) ==
  [method |-> method, path |-> path, summary |-> <<"s">>,
   oldFolder |-> strNone, newFolder |-> newFolder]

ChangePool ==
  {changeOf(toUpperCase(mGet), pathUserById, folderUsers),
   changeOf(toUpperCase(mGet), pathUserById, folderAccounts),
   changeOf(toUpperCase(mPost), pathUserById, folderUsers),
   changeOf(toUpperCase(mGet), pathLogin, folderAccounts),
   changeOf(toUpperCase(mGet), pathReset, folderUsers)}

ApplyInit ==
  /\ \E d \in ApplyDocuments :
       LET loaded == parseTree(<<>>, documentTree(d))
       IN /\ heap = loaded.heap
          /\ specArg = loaded.value
          /\ argBefore = documentTree(d)
  /\ planGiven \in [changes : SeqsUpTo(ChangePool, MaxChanges)]
  /\ result = null
  /\ applyPc = "call"
  /\ InferIdle
  /\ PlanIdle
  /\ SyncIdle
  /\ DiffIdle
  /\ AnalyzeIdle

ApplyCall ==
  /\ applyPc = "call"
  /\ LET r == applyReorganizationOnHeap(heap, specArg, planGiven)
     IN heap' = r.heap /\ result' = r.value
  /\ applyPc' = "returned"
  /\ UNCHANGED <<specArg, planGiven, argBefore, inferVars, planVars, syncVars, diffVars, analyzeVars>>

\* the caller sets a property on an object of the returned document
MutateResult ==
  /\ applyPc = "returned"
  /\ \E a \in reachable(heap, result) :
       heap' = [heap EXCEPT ![a] = put(@, keyMark, <<"str", <<"m">>>>)]
  /\ applyPc' = "mutated"
  /\ UNCHANGED <<specArg, planGiven, argBefore, result, inferVars, planVars, syncVars, diffVars, analyzeVars>>

ApplyNext == ApplyCall \/ MutateResult

SpecApply == ApplyInit /\ [][ApplyNext]_vars


(***************************************************************************)
(* Claims about applyReorganization (SpecApply).                           *)
(***************************************************************************)
\* the changes of the plan that resolve to <<path, method>>
changesFor(path, method) ==
  {i \in 1..Len(planGiven.changes) :
     /\ planGiven.changes[i].path = path
     /\ toLowerCase(planGiven.changes[i].method) = method}

maxOf(S) == CHOOSE x \in S : \A y \in S : y <= x

treeHas(tree, k) == hasKey(tree[2], k)
treeGet(tree, k) == get(tree[2], k)

\* whether change i resolves in the document that was passed in
resolvesBefore(i) ==
  /\ treeHas(argBefore, keyPaths)
  /\ treeHas(treeGet(argBefore, keyPaths), planGiven.changes[i].path)
  /\ treeHas(treeGet(treeGet(argBefore, keyPaths), planGiven.changes[i].path),
             toLowerCase(planGiven.changes[i].method))

\* C7: applyReorganization never mutates its document argument, and the
\* returned document shares no object with it: the argument is structurally
\* what it was before the call, also after the caller wrote into the result.
C7_ArgumentUntouched ==
  applyPc \in {"returned", "mutated"} =>
    /\ stringify(heap, specArg) = argBefore
    /\ reachable(heap, result) \cap reachable(heap, specArg) = {}

\* a change was applied to the copy and the caller then wrote into it
C7_Witness ==
  /\ applyPc = "mutated"
  /\ \E i \in 1..Len(planGiven.changes) : resolvesBefore(i)
  /\ stringify(heap, result) # argBefore

\* what an operation must be after the call
operationAfterOk(path, method, before, after) ==
  IF changesFor(path, method) = {}
  THEN after = before
  ELSE /\ remove(after[2], keyFolder) = remove(before[2], keyFolder)
       /\ treeHas(after, keyFolder)
       /\ treeGet(after, keyFolder) =
            <<"str", planGiven.changes[maxOf(changesFor(path, method))].newFolder>>

pathItemAfterOk(path, before, after) ==
  /\ keysOf(after[2]) = keysOf(before[2])
  /\ \A i \in 1..Len(before[2]) :
       operationAfterOk(path, before[2][i][1], before[2][i][2], after[2][i][2])

\* C8: changes that do not resolve add no path and no method and do not
\* stop the others; the returned document differs from the input only in
\* the x-apidog-folder of the endpoints some change resolves to, each set
\* to the newFolder of the last such change.
C8_PartialSilentApply ==
  applyPc = "returned" =>
    LET before == argBefore
        after  == stringify(heap, result)
    IN /\ keysOf(after[2]) = keysOf(before[2])
       /\ treeGet(after, keyOpenapi) = treeGet(before, keyOpenapi)
       /\ treeHas(before, keyPaths) =>
            LET pb == treeGet(before, keyPaths)
                pa == treeGet(after, keyPaths)
            IN /\ keysOf(pa[2]) = keysOf(pb[2])
               /\ \A i \in 1..Len(pb[2]) :
                    pathItemAfterOk(pb[2][i][1], pb[2][i][2], pa[2][i][2])

\* a plan with a change that resolves and one that does not was applied
C8_Witness ==
  /\ applyPc = "returned"
  /\ \E i \in 1..Len(planGiven.changes) : resolvesBefore(i)
  /\ \E i \in 1..Len(planGiven.changes) : ~resolvesBefore(i)
  /\ stringify(heap, result) # argBefore


(***************************************************************************)
(* analyzeFolders                                                          *)
(***************************************************************************)
\* a step that reads the folder from ep.folder alone
mutAnalyzeStep(acc, ep) ==
  IF truthy(ep.folder)
  THEN [acc EXCEPT !.folders =
          put(@, ep.folder,
              Append(IF hasKey(@, ep.folder) THEN get(@, ep.folder) ELSE <<>>,
                     ep))]
  ELSE [acc EXCEPT !.noFolder = Append(@, ep)]

\* one turn of the loop over the endpoints
analyzeStep(acc, ep) ==
  LET folder == currentFolderOf(ep)
  IN IF truthy(folder)
     THEN [acc EXCEPT !.folders =
             put(@, folder,
                 Append(IF hasKey(@, folder) THEN get(@, folder) ELSE <<>>, ep))]
     ELSE [acc EXCEPT !.noFolder = Append(@, ep)]

RECURSIVE analyzeLoop(_, _)
analyzeLoop(acc, endpoints) ==
  IF Len(endpoints) = 0 THEN acc
  ELSE analyzeLoop(analyzeStep(acc, endpoints[1]), Tail(endpoints))

analyzeFolders(endpoints) ==
  LET acc == analyzeLoop([folders |-> EmptyObject, noFolder |-> <<>>],
                         endpoints)
  IN [totalEndpoints  |-> Len(endpoints),
      totalFolders    |-> Len(acc.folders),
      unfolderedCount |-> Len(acc.noFolder),
      folders         |-> acc.folders,
      unfoldered      |-> acc.noFolder]

(***************************************************************************)
(* The Apidog client and the tool handlers.                                *)
(*                                                                         *)
(* The remote catalog is one document.  exportSpec answers with a copy of  *)
(* it; importSpec sends a whole document, after which the catalog holds    *)
(* what that document holds (apidog_delete_endpoint relies on an endpoint  *)
(* left out of the imported document being gone).  A handler runs up to    *)
(* its next await in one step; other calls run between its steps.          *)
(***************************************************************************)
\* rec[f] = v on a record that may lack the field
setField(rec, f, v) == (f :> v) @@ rec

\* what exportSpec resolves to
exportSpec(catalog) == catalog

\* the <<path, method key, value>> entries of a document, in key order
entriesOf(spec) ==
  LET paths == pathsOf(spec)
  IN flatten([i \in 1..Len(paths) |->
                [j \in 1..Len(paths[i][2]) |->
                   <<paths[i][1], paths[i][2][j][1], paths[i][2][j][2]>>]])

\* the catalog after importSpec(spec).  The request asks for
\* endpointOverwriteBehavior OVERWRITE_EXISTING, so every endpoint of the
\* document is created or overwritten.  What becomes of an endpoint the
\* document leaves out is the remote's policy, keepsAbsent: it stays, or
\* it goes with the rest of the old catalog.
importSpec(catalog, spec, keepsAbsent) ==
  IF keepsAbsent
  THEN LET merged == buildSpec(catalog, entriesOf(spec))
       IN IF hasField(spec, "tags") THEN setField(merged, "tags", spec.tags)
          ELSE merged
  ELSE spec

\* if (!spec.tags) spec.tags = []; then push {name: tag} for every tag of
\* the operation that is not in existingTags, a set built before the loop
ensureTags(spec, operation) ==
  LET tags     == IF hasField(spec, "tags") THEN spec.tags ELSE <<>>
      existing == {tags[i].name : i \in 1..Len(tags)}
      wanted   == IF hasField(operation, "tags") THEN operation.tags ELSE <<>>
      missing  == SelectSeq(wanted, LAMBDA tag : tag \notin existing)
  IN setField(spec, "tags",
              tags \o [i \in 1..Len(missing) |-> [name |-> missing[i]]])

\* apidog_upsert_endpoint between its first export and its import:
\* find, merge, ensure tags
upsertEndpointMerge(call, exported) ==
  LET a      == call.args
      action == IF resolves(exported, a.path, a.method)
                THEN "UPDATE" ELSE "CREATE"
      merged == ensureTags(putEntry(exported, <<a.path, a.method, a.operation>>),
                           a.operation)
  IN [call EXCEPT !.pc = "merged", !.spec = merged,
                  !.ret = [action |-> action]]

\* apidog_upsert_endpoint after its second export
upsertEndpointVerify(call, verifySpec) ==
  LET a        == call.args
      verified == resolves(verifySpec, a.path, a.method)
  IN [call EXCEPT !.pc = "done", !.verifySpec = verifySpec,
                  !.ret = [success  |-> verified,
                           action   |-> call.ret.action,
                           verified |-> verified]]

\* one turn of the loop of apidog_upsert_endpoints
upsertEndpointsStep(acc, ep) ==
  [spec    |-> ensureTags(putEntry(acc.spec, <<ep.path, ep.method, ep.operation>>),
                          ep.operation),
   results |-> Append(acc.results,
                 [method |-> ep.method, path |-> ep.path,
                  action |-> IF resolves(acc.spec, ep.path, ep.method)
                             THEN "UPDATE" ELSE "CREATE"])]

RECURSIVE upsertEndpointsLoop(_, _)
upsertEndpointsLoop(acc, endpoints) ==
  IF Len(endpoints) = 0 THEN acc
  ELSE upsertEndpointsLoop(upsertEndpointsStep(acc, endpoints[1]),
                           Tail(endpoints))

\* apidog_upsert_endpoints between its export and its import
upsertEndpointsMerge(call, exported) ==
  LET acc == upsertEndpointsLoop([spec |-> exported, results |-> <<>>],
                                 call.args.endpoints)
  IN [call EXCEPT !.pc = "merged", !.spec = acc.spec,
                  !.ret = [success |-> TRUE, endpoints |-> acc.results]]

\* a delete that takes the whole path item with the method
mutDeleteEntry(spec, path, method) ==
  [spec EXCEPT !.paths = remove(@, path)]

\* delete spec.paths[path][method], and the path when no key is left
deleteEntry(spec, path, method) ==
  LET item == remove(get(spec.paths, path), method)
  IN [spec EXCEPT !.paths = IF Len(item) = 0 THEN remove(@, path)
                            ELSE put(@, path, item)]

\* apidog_delete_endpoint after its export: an error result, or the
\* document to import
deleteEndpointMerge(call, exported) ==
  LET a == call.args
  IN IF ~hasKey(pathsOf(exported), a.path)
     THEN [call EXCEPT !.pc = "done", !.ret = [error |-> "path not found"]]
     ELSE IF ~hasKey(get(exported.paths, a.path), a.method)
     THEN [call EXCEPT !.pc = "done", !.ret = [error |-> "method not found"]]
     ELSE [call EXCEPT !.pc = "merged",
                       !.spec = deleteEntry(exported, a.path, a.method),
                       !.ret = [success |-> TRUE, action |-> "DELETE"]]

\* a turn that counts a change whether its endpoint is there or not
mutApplyToolStep(acc, change) ==
  LET method == toLowerCase(change.method)
  IN IF resolves(acc.spec, change.path, method)
     THEN [spec    |-> setFolder(acc.spec, change.path, method, change.newFolder),
           applied |-> acc.applied + 1]
     ELSE [acc EXCEPT !.applied = @ + 1]

\* one turn of the loop of apidog_apply_reorganization
applyToolStep(acc, change) ==
  LET method == toLowerCase(change.method)
  IN IF resolves(acc.spec, change.path, method)
     THEN [spec    |-> setFolder(acc.spec, change.path, method, change.newFolder),
           applied |-> acc.applied + 1]
     ELSE acc

RECURSIVE applyToolLoop(_, _)
applyToolLoop(acc, changes) ==
  IF Len(changes) = 0 THEN acc
  ELSE applyToolLoop(applyToolStep(acc, changes[1]), Tail(changes))

\* apidog_apply_reorganization between its export and its import
applyReorganizationMerge(call, exported) ==
  LET acc == applyToolLoop([spec |-> exported, applied |-> 0],
                           call.args.changes)
  IN [call EXCEPT !.pc = "merged", !.spec = acc.spec,
                  !.ret = [success |-> TRUE,
                           action |-> "REORGANIZE_FOLDERS",
                           endpointsUpdated |-> acc.applied,
                           totalChangesRequested |-> Len(call.args.changes)]]

\* the options apidog_propose_reorganization hands to the planner:
\* args.strategy || 'path-based', args.groupByVersion || false,
\* args.stripApiPrefix !== false, args.maxDepth || 3,
\* args.customMappings || {}
proposeOptions(args) ==
  [strategy       |-> IF hasField(args, "strategy") THEN args.strategy
                      ELSE "path-based",
   groupByVersion |-> hasField(args, "groupByVersion") /\ args.groupByVersion,
   stripApiPrefix |-> ~hasField(args, "stripApiPrefix") \/ args.stripApiPrefix,
   maxDepth       |-> IF hasField(args, "maxDepth") /\ args.maxDepth # 0
                      THEN args.maxDepth ELSE 3,
   customMappings |-> IF hasField(args, "customMappings")
                      THEN args.customMappings ELSE EmptyObject]

\* what apidog_propose_reorganization returns of the plan
proposeResult(planned) ==
  [changesCount   |-> planned.changesCount,
   unchangedCount |-> planned.unchangedCount,
   changes        |-> planned.changes]

\* the plan apidog_propose_reorganization computes from its export
plannedFor(call, exported) ==
  proposeReorganization(parseEndpoints(exported), proposeOptions(call.args))

mutProposeImport(call, exported, planned) ==
  [call EXCEPT !.pc = "merged",
               !.spec = applyReorganization(exported, planned),
               !.ret = proposeResult(planned)]

\* a handler for apidog_propose_reorganization that goes on to import the
\* document with the plan applied
mutProposeTool(call, exported) ==
  mutProposeImport(call, exported, plannedFor(call, exported))

\* apidog_propose_reorganization after its export
proposeTool(call, exported) ==
  [call EXCEPT !.pc = "done",
               !.ret = proposeResult(plannedFor(call, exported))]

\* apidog_analyze_folders after its export
analyzeTool(call, exported) ==
  LET analysis == analyzeFolders(parseEndpoints(exported))
  IN [call EXCEPT !.pc = "done",
                  !.ret = [totalEndpoints  |-> analysis.totalEndpoints,
                           totalFolders    |-> analysis.totalFolders,
                           unfolderedCount |-> analysis.unfolderedCount]]

\* the read tools after their export.  apidog_search_endpoints: the
\* scoring and ranking of the hits is not modelled, only which endpoints
\* have the query in their path
readTool(call, exported) ==
  LET eps == parseEndpoints(exported)
      a   == call.args
  IN [call EXCEPT !.pc = "done", !.ret =
       CASE call.tool = "apidog_export_spec" -> [spec |-> exported]
         [] call.tool = "apidog_list_endpoints" -> [total |-> Len(eps)]
         [] call.tool = "apidog_get_endpoint" ->
              IF ~hasKey(pathsOf(exported), a.path)
              THEN [error |-> "path not found"]
              ELSE IF ~hasKey(get(exported.paths, a.path), a.method)
              THEN [error |-> "method not found"]
              ELSE [operation |-> operationAt(exported, a.path, a.method)]
         [] call.tool = "apidog_search_endpoints" ->
              [total |-> Len(SelectSeq(eps, LAMBDA e :
                 \E i \in 0..Len(e.path) :
                   startsWith(sliceFrom(toLowerCase(e.path), i),
                              toLowerCase(a.query))))]]


(***************************************************************************)
(* SpecSync: MaxCalls tool calls against one remote catalog.  The server   *)
(* starts a handler for every request it receives without waiting for the  *)
(* handlers already running, and several servers can share one project,    *)
(* so the steps of different calls interleave at their awaits.             *)
(***************************************************************************)
tagUsers == <<"u">>
opTagged == [summary |-> <<"s">>, tags |-> <<tagUsers, tagUsers>>]
strUsersQuery == <<"u", "s", "e", "r", "s">>
mGET == <<"G", "E", "T">>

emptyCatalog == [openapi |-> <<"3">>, paths |-> EmptyObject]

Catalogs ==
  { emptyCatalog,
    buildSpec(emptyCatalog, << <<pathUserById, mGet, opPlain>> >>),
    buildSpec(emptyCatalog, << <<pathUserById, mGet, opPlain>>,
                               <<pathLogin, mGet, opIn(folderLegacy)>> >>),
    buildSpec(emptyCatalog, << <<pathUserById, mGet, opPlain>>,
                               <<pathUserById, mPost, opPlain>>,
                               <<pathLogin, keyParameters, opPlain>>,
                               <<pathLogin, mPost, opPlain>> >>) }

\* apidog_upsert_schema and apidog_import_spec write too; they carry schemas
\* or a whole document and are not among the calls followed here
WriteTools ==
  {"apidog_upsert_endpoint", "apidog_upsert_endpoints",
   "apidog_delete_endpoint", "apidog_apply_reorganization"}

ReadTools ==
  {"apidog_export_spec", "apidog_list_endpoints", "apidog_get_endpoint",
   "apidog_search_endpoints"}

DryTools ==
  ReadTools \cup {"apidog_analyze_folders", "apidog_propose_reorganization"}

request(tool, args) == [tool |-> tool, args |-> args]

CallRequests ==
  { request("apidog_upsert_endpoint",
            [path |-> pathUserById, method |-> mGet,
             operation |-> opIn(folderUsers)]),
    request("apidog_upsert_endpoint",
            [path |-> pathLogin, method |-> mGet, operation |-> opTagged]),
    request("apidog_upsert_endpoints",
            [endpoints |->
               << [path |-> pathLogin, method |-> mPost, operation |-> opTagged],
                  [path |-> pathReset, method |-> mGet, operation |-> opPlain] >>]),
    request("apidog_delete_endpoint", [path |-> pathUserById, method |-> mGet]),
    request("apidog_delete_endpoint", [path |-> pathLogin, method |-> mPost]),
    request("apidog_apply_reorganization",
            [changes |->
               << [path |-> pathLogin, method |-> mGET,
                   newFolder |-> folderAccounts],
                  [path |-> pathReset, method |-> mGET,
                   newFolder |-> folderUsers] >>]),
    request("apidog_propose_reorganization", [maxDepth |-> 0]),
    request("apidog_propose_reorganization",
            [strategy |-> "flat", customMappings |-> mappingsUsers]),
    request("apidog_analyze_folders", <<>>),
    request("apidog_export_spec", <<>>),
    request("apidog_list_endpoints", <<>>),
    request("apidog_get_endpoint", [path |-> pathLogin, method |-> mGet]),
    request("apidog_search_endpoints", [query |-> strUsersQuery]) }

newCall(req) ==
  [tool |-> req.tool, args |-> req.args, pc |-> "start",
   spec |-> null, verifySpec |-> null, ret |-> null]

\* the endpoints whose state the model follows
EndpointKeys == {pathUserById, pathLogin, pathReset} \X {mGet, mPost}

Absent == [absent |-> TRUE]

\* what the document holds at an endpoint key
storedAt(spec, k) ==
  IF resolves(spec, k[1], k[2]) THEN operationAt(spec, k[1], k[2]) ELSE Absent

\* the endpoints a write call names in its arguments
targetsOf(call) ==
  CASE call.tool \in {"apidog_upsert_endpoint", "apidog_delete_endpoint"} ->
         {<<call.args.path, call.args.method>>}
    [] call.tool = "apidog_upsert_endpoints" ->
         {<<call.args.endpoints[i].path, call.args.endpoints[i].method>> :
            i \in 1..Len(call.args.endpoints)}
    [] call.tool = "apidog_apply_reorganization" ->
         {<<call.args.changes[i].path, toLowerCase(call.args.changes[i].method)>> :
            i \in 1..Len(call.args.changes)}
    [] OTHER -> {}

SyncInit ==
  /\ InferIdle /\ PlanIdle /\ ApplyIdle /\ DiffIdle /\ AnalyzeIdle
  /\ remote \in Catalogs
  /\ importKeepsAbsent \in BOOLEAN
  /\ calls \in [1..MaxCalls -> {newCall(req) : req \in CallRequests}]
  /\ lastWritten = [k \in EndpointKeys |-> storedAt(remote, k)]

\* the first await of a handler resolves: its export, and the code up to
\* the next await or the return
frame ==
  UNCHANGED <<inferVars, planVars, applyVars, importKeepsAbsent,
              diffVars, analyzeVars>>

started(c, tool) == calls[c].tool = tool /\ calls[c].pc = "start"

ReadCall(c) ==
  /\ calls[c].tool \in ReadTools /\ calls[c].pc = "start"
  /\ calls' = [calls EXCEPT ![c] = readTool(@, exportSpec(remote))]
  /\ UNCHANGED <<remote, lastWritten>> /\ frame

AnalyzeFoldersCall(c) ==
  /\ started(c, "apidog_analyze_folders")
  /\ calls' = [calls EXCEPT ![c] = analyzeTool(@, exportSpec(remote))]
  /\ UNCHANGED <<remote, lastWritten>> /\ frame

ProposeReorganizationCall(c) ==
  /\ started(c, "apidog_propose_reorganization")
  /\ calls' = [calls EXCEPT ![c] = proposeTool(@, exportSpec(remote))]
  /\ UNCHANGED <<remote, lastWritten>> /\ frame

UpsertEndpointExport(c) ==
  /\ started(c, "apidog_upsert_endpoint")
  /\ calls' = [calls EXCEPT ![c] = upsertEndpointMerge(@, exportSpec(remote))]
  /\ UNCHANGED <<remote, lastWritten>> /\ frame

UpsertEndpointsExport(c) ==
  /\ started(c, "apidog_upsert_endpoints")
  /\ calls' = [calls EXCEPT ![c] = upsertEndpointsMerge(@, exportSpec(remote))]
  /\ UNCHANGED <<remote, lastWritten>> /\ frame

DeleteEndpointExport(c) ==
  /\ started(c, "apidog_delete_endpoint")
  /\ calls' = [calls EXCEPT ![c] = deleteEndpointMerge(@, exportSpec(remote))]
  /\ UNCHANGED <<remote, lastWritten>> /\ frame

ApplyReorganizationExport(c) ==
  /\ started(c, "apidog_apply_reorganization")
  /\ calls' = [calls EXCEPT ![c] =
                 applyReorganizationMerge(@, exportSpec(remote))]
  /\ UNCHANGED <<remote, lastWritten>> /\ frame

\* await client.importSpec(spec) resolves: the catalog takes the document
\* the call built from its export.  lastWritten records what the catalog
\* holds, right after this import, at each endpoint the call targets.
ImportCall(c) ==
  /\ calls[c].pc = "merged"
  /\ remote' = importSpec(remote, calls[c].spec, importKeepsAbsent)
  /\ lastWritten' = [k \in EndpointKeys |->
                       IF k \in targetsOf(calls[c]) THEN storedAt(remote', k)
                       ELSE lastWritten[k]]
  /\ calls' = [calls EXCEPT ![c].pc =
                 IF calls[c].tool = "apidog_upsert_endpoint"
                 THEN "imported" ELSE "done"]
  /\ frame

\* the second export of apidog_upsert_endpoint resolves
UpsertEndpointVerify(c) ==
  /\ calls[c].tool = "apidog_upsert_endpoint" /\ calls[c].pc = "imported"
  /\ calls' = [calls EXCEPT ![c] = upsertEndpointVerify(@, exportSpec(remote))]
  /\ UNCHANGED <<remote, lastWritten>> /\ frame

SyncNext ==
  \E c \in 1..MaxCalls :
    \/ ReadCall(c)
    \/ AnalyzeFoldersCall(c)
    \/ ProposeReorganizationCall(c)
    \/ UpsertEndpointExport(c)
    \/ UpsertEndpointsExport(c)
    \/ DeleteEndpointExport(c)
    \/ ApplyReorganizationExport(c)
    \/ ImportCall(c)
    \/ UpsertEndpointVerify(c)

SpecSync == SyncInit /\ [][SyncNext]_vars


(***************************************************************************)
(* Claims on SpecSync                                                      *)
(***************************************************************************)
disjointTargets ==
  \A c, d \in 1..MaxCalls :
    c # d => targetsOf(calls[c]) \cap targetsOf(calls[d]) = {}

\* C5: no lost update.  When the calls target different endpoints, every
\* endpoint of the remote catalog holds, after any interleaving, what the
\* last import of a call that targets it left there, and an endpoint no
\* call targets holds what it held at the start.
C5_NoLostUpdate ==
  disjointTargets =>
    \A k \in EndpointKeys : storedAt(remote, k) = lastWritten[k]

\* C6: whenever apidog_upsert_endpoint returns verified = true, the
\* operation at (path, method) of the catalog it re-exported is the
\* operation it was given.
C6_VerifiedMeansStored ==
  \A c \in 1..MaxCalls :
    (/\ calls[c].tool = "apidog_upsert_endpoint"
     /\ calls[c].pc = "done"
     /\ calls[c].ret.verified)
    => storedAt(calls[c].verifySpec,
                <<calls[c].args.path, calls[c].args.method>>)
         = calls[c].args.operation

stepOf(c) == calls'[c].pc # calls[c].pc

\* C9: a step of apidog_propose_reorganization, of apidog_analyze_folders
\* or of a read tool leaves the remote catalog as it is and ends the call
\* without an import pending; the remote catalog changes only in the
\* import step of a write tool.
C9_DryRunTools ==
  [][/\ \A c \in 1..MaxCalls :
          (calls[c].tool \in DryTools /\ stepOf(c))
          => (remote' = remote /\ calls'[c].pc = "done")
     /\ remote' # remote
          => \E c \in 1..MaxCalls :
               /\ calls[c].tool \in WriteTools
               /\ calls[c].pc = "merged" /\ calls'[c].pc # "merged"]_vars

\* a proposal with changes has been returned
C9_Witness ==
  \E c \in 1..MaxCalls :
    /\ calls[c].tool = "apidog_propose_reorganization"
    /\ calls[c].pc = "done"
    /\ calls[c].ret.changesCount > 0


\* the entries of a document but the one at <<path, method>>
entriesBut(spec, path, method) ==
  SelectSeq(entriesOf(spec), LAMBDA e : <<e[1], e[2]>> # <<path, method>>)

\* the document but its paths
restOf(spec) == [f \in DOMAIN spec \ {"paths"} |-> spec[f]]

\* what the export step of apidog_delete_endpoint leaves in the call, the
\* catalog being the one it exported
deletedFrom(catalog, before, after) ==
  LET path   == before.args.path
      method == before.args.method
  IN IF resolves(catalog, path, method)
     THEN /\ after.pc = "merged"
          /\ hasField(after.ret, "success")
          /\ entriesOf(after.spec) = entriesBut(catalog, path, method)
          /\ restOf(after.spec) = restOf(catalog)
          /\ \A i \in 1..Len(catalog.paths) :
               catalog.paths[i][1] # path =>
                 hasKey(after.spec.paths, catalog.paths[i][1])
          /\ ~hasKey(after.spec.paths, path) =>
               \A i \in 1..Len(entriesBut(catalog, path, method)) :
                 LET e == entriesBut(catalog, path, method)[i]
                 IN ~(e[1] = path /\ e[2] \in HttpMethods)
     ELSE /\ after.pc = "done"
          /\ hasField(after.ret, "error")

\* C19: apidog_delete_endpoint on a path the exported catalog does not have,
\* or on a method that path does not define, returns an error and never
\* imports, the remote catalog staying as it is; otherwise the document it
\* imports is the exported one without that operation, the path going only
\* when no method is left on it and every other endpoint staying as it was.
C19_DeleteEndpoint ==
  [][\A c \in 1..MaxCalls :
       calls[c].tool = "apidog_delete_endpoint" =>
         /\ (calls[c].pc = "start" /\ calls'[c].pc # "start") =>
              /\ deletedFrom(remote, calls[c], calls'[c])
              /\ remote' = remote
         /\ (calls[c].pc = "merged" /\ calls'[c].pc # "merged") =>
              remote' = importSpec(remote, calls[c].spec, importKeepsAbsent)
         /\ calls[c].pc = "merged" => calls'[c].spec = calls[c].spec
         /\ calls[c].pc = "done" => calls'[c] = calls[c]]_vars

\* one delete answered with an error, another one that built its document,
\* from which the path is gone with its last method
C19_Witness ==
  \E c, d \in 1..MaxCalls :
    /\ calls[c].tool = "apidog_delete_endpoint"
    /\ calls[c].pc = "done" /\ hasField(calls[c].ret, "error")
    /\ calls[d].tool = "apidog_delete_endpoint"
    /\ calls[d].pc = "merged"
    /\ ~hasKey(calls[d].spec.paths, calls[d].args.path)
    /\ resolves(remote, calls[d].args.path, calls[d].args.method)

\* the changes whose endpoint is in the catalog
resolving(catalog, changes) ==
  {i \in 1..Len(changes) :
     resolves(catalog, changes[i].path, toLowerCase(changes[i].method))}

\* the <<path, method key>> of the entries of a document, in key order
endpointKeysOf(spec) ==
  [i \in 1..Len(entriesOf(spec)) |->
     <<entriesOf(spec)[i][1], entriesOf(spec)[i][2]>>]

\* what the export step of apidog_apply_reorganization leaves in the call,
\* the catalog being the one it exported
reorganizedFrom(catalog, before, after) ==
  LET changes == before.args.changes
  IN /\ after.pc = "merged"
     /\ hasField(after.ret, "success")
     /\ after.ret.endpointsUpdated = Cardinality(resolving(catalog, changes))
     /\ after.ret.totalChangesRequested = Len(changes)
     /\ after.ret.endpointsUpdated <= after.ret.totalChangesRequested
     /\ endpointKeysOf(after.spec) = endpointKeysOf(catalog)
     /\ \A i \in 1..Len(changes) :
          i \notin resolving(catalog, changes) =>
            ~resolves(after.spec, changes[i].path,
                      toLowerCase(changes[i].method))

\* C20: apidog_apply_reorganization reports as endpointsUpdated the number
\* of the changes whose path and lower-cased method are in the catalog it
\* exported, which is at most totalChangesRequested; a change whose endpoint
\* is not in that catalog is skipped: the call goes on to its import, and
\* the document it imports does not have the endpoint.
C20_AppliedCount ==
  [][\A c \in 1..MaxCalls :
       (/\ started(c, "apidog_apply_reorganization")
        /\ calls'[c].pc # "start") =>
         reorganizedFrom(remote, calls[c], calls'[c])]_vars

\* one of the two changes was applied, the endpoint of the other one being
\* in no catalog the call saw
C20_Witness ==
  \E c \in 1..MaxCalls :
    /\ calls[c].tool = "apidog_apply_reorganization"
    /\ calls[c].pc = "merged"
    /\ calls[c].ret.endpointsUpdated = 1
    /\ calls[c].ret.totalChangesRequested = 2
    /\ \E i \in 1..2 :
         ~resolves(calls[c].spec, calls[c].args.changes[i].path,
                   toLowerCase(calls[c].args.changes[i].method))

\* spec.tags || []
tagsOf(spec) == IF hasField(spec, "tags") THEN spec.tags ELSE <<>>

\* no two entries of the list have the same name
distinctNames(tags) ==
  \A i, j \in 1..Len(tags) : i # j => tags[i].name # tags[j].name

\* C23: tag merging creates no duplicate tag name: when the tags of the
\* catalog a write exported have distinct names, so have the tags of the
\* document apidog_upsert_endpoint or apidog_upsert_endpoints builds from
\* it, whatever the submitted tags, a repeated new name included; the tags
\* of the catalog stay first, unchanged and in order.
C23_NoDuplicateTags ==
  [][\A c \in 1..MaxCalls :
       (/\ calls[c].tool \in {"apidog_upsert_endpoint", "apidog_upsert_endpoints"}
        /\ calls[c].pc = "start" /\ calls'[c].pc = "merged"
        /\ distinctNames(tagsOf(remote))) =>
         /\ distinctNames(tagsOf(calls'[c].spec))
         /\ Len(tagsOf(calls'[c].spec)) >= Len(tagsOf(remote))
         /\ SubSeq(tagsOf(calls'[c].spec), 1, Len(tagsOf(remote)))
              = tagsOf(remote)]_vars

(***************************************************************************)
(* deepDiff and formatDiff.                                                *)
(*                                                                         *)
(* A JSON value is a tagged tuple: <<"str", s>>, <<"num", n>>, null,       *)
(* undefined, <<"arr", elements>> or <<"obj", entries>>, the entries being *)
(* <<key, value>> pairs in the order Object.keys lists them.  Strings,     *)
(* keys and paths are sequences of characters.  The callers of deepDiff    *)
(* hand it objects, and it hands itself objects and arrays.  No key is the *)
(* name of a member of Object.prototype.                                   *)
(***************************************************************************)
keyRunInApidog ==
  <<"x", "-", "r", "u", "n", "-", "i", "n", "-", "a", "p", "i", "d", "o", "g">>
strLength == <<"l", "e", "n", "g", "t", "h">>
Dot == "."

undefined == <<"undefined">>
vStr(s) == <<"str", s>>
vNum(n) == <<"num", n>>
vArr(elements) == <<"arr", elements>>
vObj(entries) == <<"obj", entries>>
tagOf(v) == v[1]

\* typeof v === 'object' && v !== null
isObjectValue(v) == tagOf(v) \in {"obj", "arr"}
\* Array.isArray(v)
isArray(v) == tagOf(v) = "arr"
\* a === b where at most one side is an object or an array
strictEquals(a, b) == tagOf(a) = tagOf(b) /\ ~isObjectValue(a) /\ a = b

DigitChars == <<"0", "1", "2", "3", "4", "5", "6", "7", "8", "9">>
DigitValue == [c \in {DigitChars[i] : i \in 1..10} |->
                 (CHOOSE i \in 1..10 : DigitChars[i] = c) - 1]

\* String(n)
RECURSIVE decimal(_)
decimal(n) ==
  IF n < 10 THEN <<DigitChars[n + 1]>>
  ELSE decimal(n \div 10) \o <<DigitChars[(n % 10) + 1]>>

\* Number(k) of a string of digits
RECURSIVE toNumber(_)
toNumber(k) ==
  IF Len(k) = 0 THEN 0
  ELSE toNumber(SubSeq(k, 1, Len(k) - 1)) * 10 + DigitValue[k[Len(k)]]

\* an integer-like key: Object.keys lists these first, in ascending order
isIndexKey(k) ==
  /\ Len(k) > 0
  /\ \A i \in 1..Len(k) : k[i] \in DOMAIN DigitValue
  /\ Len(k) > 1 => k[1] # "0"

\* Object.keys(v || {})
ownKeys(v) ==
  CASE tagOf(v) = "obj" -> [i \in 1..Len(v[2]) |-> v[2][i][1]]
    [] tagOf(v) = "arr" -> [i \in 1..Len(v[2]) |-> decimal(i - 1)]
    [] OTHER -> <<>>

\* v?.[key]
prop(v, key) ==
  CASE tagOf(v) = "obj" ->
         IF hasKey(v[2], key) THEN get(v[2], key) ELSE undefined
    [] tagOf(v) = "arr" ->
         IF isIndexKey(key) /\ toNumber(key) < Len(v[2])
         THEN v[2][toNumber(key) + 1]
         ELSE IF key = strLength THEN vNum(Len(v[2])) ELSE undefined
    [] OTHER -> undefined

\* JSON.stringify(v); the strings of the model are made of letters, which
\* are written as they are
RECURSIVE jsonText(_)
RECURSIVE jsonElements(_)
RECURSIVE jsonMembers(_, _)
jsonText(v) ==
  CASE tagOf(v) = "str" -> <<"\"">> \o v[2] \o <<"\"">>
    [] tagOf(v) = "num" -> decimal(v[2])
    [] tagOf(v) = "arr" -> <<"[">> \o jsonElements(v[2]) \o <<"]">>
    [] tagOf(v) = "obj" -> <<"{">> \o jsonMembers(v[2], FALSE) \o <<"}">>
    [] OTHER -> <<"n", "u", "l", "l">>

jsonElements(elements) ==
  IF Len(elements) = 0 THEN <<>>
  ELSE jsonText(elements[1])
         \o (IF Len(elements) > 1 THEN <<",">> ELSE <<>>)
         \o jsonElements(Tail(elements))

\* a member whose value is undefined is left out
jsonMembers(entries, comma) ==
  IF Len(entries) = 0 THEN <<>>
  ELSE IF tagOf(entries[1][2]) = "undefined"
       THEN jsonMembers(Tail(entries), comma)
       ELSE (IF comma THEN <<",">> ELSE <<>>)
              \o <<"\"">> \o entries[1][1] \o <<"\"", ":">>
              \o jsonText(entries[1][2])
              \o jsonMembers(Tail(entries), TRUE)

\* new Set([...a, ...b]): first occurrences, in order
RECURSIVE unique(_, _)
unique(keys, seen) ==
  IF Len(keys) = 0 THEN seen
  ELSE unique(Tail(keys),
              IF \E i \in 1..Len(seen) : seen[i] = keys[1] THEN seen
              ELSE Append(seen, keys[1]))

\* path ? `${path}.${key}` : key
fullPathOf(path, key) ==
  IF path # <<>> THEN path \o <<Dot>> \o key ELSE key

RECURSIVE deepDiff(_, _, _)
RECURSIVE diffKeys(_, _, _, _)

\* one turn of the loop over allKeys: the changes it pushes
compareKey(key, fullPath, oldVal, newVal) ==
  IF key = keyRunInApidog THEN <<>>
  ELSE IF tagOf(oldVal) = "undefined" /\ tagOf(newVal) # "undefined"
  THEN << [type |-> "added", path |-> fullPath, value |-> newVal] >>
  ELSE IF tagOf(oldVal) # "undefined" /\ tagOf(newVal) = "undefined"
  THEN << [type |-> "removed", path |-> fullPath, value |-> oldVal] >>
  ELSE IF isObjectValue(oldVal) /\ isObjectValue(newVal)
  THEN IF isArray(oldVal) /\ isArray(newVal)
       THEN IF jsonText(oldVal) # jsonText(newVal)
            THEN << [type |-> "changed", path |-> fullPath,
                     oldValue |-> oldVal, newValue |-> newVal] >>
            ELSE <<>>
       ELSE deepDiff(oldVal, newVal, fullPath)
  ELSE IF ~strictEquals(oldVal, newVal)
  THEN << [type |-> "changed", path |-> fullPath,
           oldValue |-> oldVal, newValue |-> newVal] >>
  ELSE <<>>

diffKeys(oldObj, newObj, path, keys) ==
  IF Len(keys) = 0 THEN <<>>
  ELSE compareKey(keys[1], fullPathOf(path, keys[1]),
                  prop(oldObj, keys[1]), prop(newObj, keys[1]))
         \o diffKeys(oldObj, newObj, path, Tail(keys))

deepDiff(oldObj, newObj, path) ==
  diffKeys(oldObj, newObj, path,
           unique(ownKeys(oldObj) \o ownKeys(newObj), <<>>))

\* obj[k] = v: a key the object has keeps its place; a new integer-like
\* key goes among the integer-like keys, in ascending order and before
\* every other key; any other new key goes last
setKey(obj, k, v) ==
  IF hasKey(obj, k) \/ ~isIndexKey(k) THEN put(obj, k, v)
  ELSE SelectSeq(obj, LAMBDA e : isIndexKey(e[1])
                                   /\ toNumber(e[1]) < toNumber(k))
         \o << <<k, v>> >>
         \o SelectSeq(obj, LAMBDA e : ~(isIndexKey(e[1])
                                          /\ toNumber(e[1]) < toNumber(k)))

\* s.replace(pattern, ''): the first occurrence of the pattern is removed
removeFirst(s, pattern) ==
  LET at == {i \in 1..(Len(s) - Len(pattern) + 1) :
               SubSeq(s, i, i + Len(pattern) - 1) = pattern}
  IN IF at = {} \/ Len(pattern) = 0 THEN s
     ELSE LET i == CHOOSE i \in at : \A j \in at : i <= j
          IN SubSeq(s, 1, i - 1) \o SubSeq(s, i + Len(pattern), Len(s))

TruncateMax == 150
\* truncate(str, max = 150)
truncate(str) ==
  IF Len(str) > TruncateMax
  THEN SubSeq(str, 1, TruncateMax) \o <<".", ".", ".">>
  ELSE str

strNoChanges ==
  <<"N", "o", " ", "c", "h", "a", "n", "g", "e", "s", " ",
    "d", "e", "t", "e", "c", "t", "e", "d", ".">>
strDetected ==
  <<" ", "c", "h", "a", "n", "g", "e", "(", "s", ")", " ",
    "d", "e", "t", "e", "c", "t", "e", "d", ":">>
strOld == <<" ", " ", " ", " ", " ", " ", "o", "l", "d", ":", " ">>
strNew == <<" ", " ", " ", " ", " ", " ", "n", "e", "w", ":", " ">>
Newline == "\n"

\* change.path.split('.')[0]
sectionOf(change) == split(change.path, Dot)[1]

\* groups[section].push(change), the list being created when missing
groupStep(groups, change) ==
  setKey(groups, sectionOf(change),
         Append(IF hasKey(groups, sectionOf(change))
                THEN get(groups, sectionOf(change)) ELSE <<>>,
                change))

RECURSIVE groupLoop(_, _)
groupLoop(groups, list) ==
  IF Len(list) = 0 THEN groups
  ELSE groupLoop(groupStep(groups, list[1]), Tail(list))

\* the lines pushed for one change of a section
changeLines(change, shortPath) ==
  CASE change.type = "added" ->
         << <<" ", " ", "+", " ">> \o shortPath \o <<":", " ">>
              \o truncate(jsonText(change.value)) >>
    [] change.type = "removed" ->
         << <<" ", " ", "-", " ">> \o shortPath \o <<":", " ">>
              \o truncate(jsonText(change.value)) >>
    [] change.type = "changed" ->
         << <<" ", " ", "~", " ">> \o shortPath \o <<":">>,
            strOld \o truncate(jsonText(change.oldValue)),
            strNew \o truncate(jsonText(change.newValue)) >>
    [] OTHER -> <<>>

\* the lines pushed for one section: its title, then its changes
sectionLines(section, sectionChanges) ==
  << section \o <<":">> >>
    \o flatten([i \in 1..Len(sectionChanges) |->
                  changeLines(sectionChanges[i],
                              removeFirst(sectionChanges[i].path,
                                          section \o <<Dot>>))])

\* the lines of the sections, in the order Object.entries lists the groups
groupLines(groups) ==
  flatten([i \in 1..Len(groups) |-> sectionLines(groups[i][1], groups[i][2])])

formatDiff(list) ==
  IF Len(list) = 0 THEN strNoChanges
  ELSE join(<< decimal(Len(list)) \o strDetected \o <<Newline>> >>
              \o groupLines(groupLoop(EmptyObject, list)),
            <<Newline>>)

(***************************************************************************)
(* SpecDiff: deepDiff is called on two objects and formatDiff on the list  *)
(* it returns.                                                             *)
(***************************************************************************)
MaxKeys == 2

strA == vStr(<<"a">>)
strB == vStr(<<"b">>)
keySummaryField == <<"s", "u", "m", "m", "a", "r", "y">>
key200 == <<"2", "0", "0">>
keyX == <<"x">>

\* the <<key, value>> entries the compared objects are made of
DiffEntryPool ==
  ({keySummaryField, keyRunInApidog} \X {strA, strB})
  \cup {<<keyX, strA>>}
  \cup ({key200} \X
          { vObj(<<>>), vObj(<< <<keyX, strA>> >>),
            vObj(<< <<keyRunInApidog, strA>> >>),
            vObj(<< <<keyX, strA>>, <<keyRunInApidog, strB>> >>),
            vArr(<<>>), vArr(<<strA>>),
            vArr(<< vObj(<< <<keyRunInApidog, strA>> >>) >>),
            vArr(<< vObj(<< <<keyRunInApidog, strB>> >>) >>) })

\* the key order of an object: integer-like keys first and ascending
keyOrdered(entries) ==
  \A i, j \in 1..Len(entries) :
    i < j =>
      /\ entries[i][1] # entries[j][1]
      /\ isIndexKey(entries[j][1]) =>
           (/\ isIndexKey(entries[i][1])
            /\ toNumber(entries[i][1]) < toNumber(entries[j][1]))

DiffObjects ==
  {vObj(es) : es \in {s \in SeqsUpTo(DiffEntryPool, MaxKeys) : keyOrdered(s)}}

DiffInit ==
  /\ oldArg \in DiffObjects /\ newArg \in DiffObjects
  /\ diffChanges = <<>> /\ diffText = <<>> /\ diffPc = "start"
  /\ InferIdle /\ PlanIdle /\ ApplyIdle /\ SyncIdle /\ AnalyzeIdle

DeepDiff ==
  /\ diffPc = "start"
  /\ diffChanges' = deepDiff(oldArg, newArg, <<>>)
  /\ diffPc' = "diffed"
  /\ UNCHANGED <<oldArg, newArg, diffText,
                 inferVars, planVars, applyVars, syncVars, analyzeVars>>

FormatDiff ==
  /\ diffPc = "diffed"
  /\ diffText' = formatDiff(diffChanges)
  /\ diffPc' = "formatted"
  /\ UNCHANGED <<oldArg, newArg, diffChanges,
                 inferVars, planVars, applyVars, syncVars, analyzeVars>>

DiffNext == DeepDiff \/ FormatDiff

SpecDiff == DiffInit /\ [][DiffNext]_vars

\* a value without the key 'x-run-in-apidog', in its objects, in the
\* objects they hold and in the objects its lists hold
RECURSIVE withoutRunLinks(_)
withoutRunLinks(v) ==
  CASE tagOf(v) = "obj" ->
         LET kept == SelectSeq(v[2], LAMBDA e : e[1] # keyRunInApidog)
         IN vObj([i \in 1..Len(kept) |->
                    <<kept[i][1], withoutRunLinks(kept[i][2])>>])
    [] tagOf(v) = "arr" ->
         vArr([i \in 1..Len(v[2]) |-> withoutRunLinks(v[2][i])])
    [] OTHER -> v

\* C15: deepDiff of two values that differ only in the value or the
\* presence of the key 'x-run-in-apidog' is the empty list, wherever the
\* key is: at the top level, in nested objects, in objects that are
\* elements of lists.
C15_RunLinkIgnored ==
  (diffPc # "start" /\ withoutRunLinks(oldArg) = withoutRunLinks(newArg)) =>
    diffChanges = <<>>

\* path is key, or goes through key
under(path, key) ==
  \/ path = key
  \/ Len(path) > Len(key) /\ SubSeq(path, 1, Len(key) + 1) = key \o <<Dot>>

\* one side a list, the other a structured object that is no list
listAgainstObject(a, b) ==
  \/ tagOf(a) = "arr" /\ tagOf(b) = "obj"
  \/ tagOf(a) = "obj" /\ tagOf(b) = "arr"

\* C16: a key that holds a list on one side and a structured object that
\* is no list on the other gives exactly one entry, 'changed', whose path is
\* the key and whose oldValue and newValue are the two values; there is no
\* entry with a deeper path.
C16_ListAgainstObject ==
  diffPc # "start" =>
    \A i \in 1..Len(oldArg[2]) :
      LET key == oldArg[2][i][1]
      IN (/\ key # keyRunInApidog
          /\ listAgainstObject(prop(oldArg, key), prop(newArg, key))) =>
           SelectSeq(diffChanges, LAMBDA c : under(c.path, key)) =
             << [type |-> "changed", path |-> key,
                 oldValue |-> prop(oldArg, key),
                 newValue |-> prop(newArg, key)] >>

\* the changes of one section, in the order of the list
changesOf(list, section) ==
  SelectSeq(list, LAMBDA c : sectionOf(c) = section)

\* the sections of a list of changes, in the order they first appear
sectionsOf(list) ==
  unique([i \in 1..Len(list) |-> sectionOf(list[i])], <<>>)

\* the text whose sections are in the order of first appearance
firstSeenText(list) ==
  IF Len(list) = 0 THEN strNoChanges
  ELSE join(<< decimal(Len(list)) \o strDetected \o <<Newline>> >>
              \o flatten([i \in 1..Len(sectionsOf(list)) |->
                            sectionLines(sectionsOf(list)[i],
                                         changesOf(list, sectionsOf(list)[i]))]),
            <<Newline>>)

\* C17: formatDiff groups the changes by the first segment of their path
\* and writes the groups in the order their segment first appears in the
\* list, whatever the segment (a string of digits included), the changes of
\* a group in the order of the list; the empty list gives
\* 'No changes detected.'.
C17_FirstSeenSections ==
  diffPc = "formatted" => diffText = firstSeenText(diffChanges)

(***************************************************************************)
(* SpecAnalyze: analyzeFolders is called on a list of endpoints.           *)
(***************************************************************************)
\* the endpoints of the lists: the folder field and the operation's
\* x-apidog-folder are each absent, empty or a name
AnalyzeEndpointPool ==
  {[method |-> mGET, path |-> p, summary |-> <<"s">>, folder |-> f,
    operation |-> o] :
     p \in {pathUserById, pathLogin},
     f \in {null, <<>>, folderUsers, folderLegacy},
     o \in {opPlain, opIn(<<>>), opIn(folderUsers)}}

AnalyzeInit ==
  /\ endpointList \in SeqsUpTo(AnalyzeEndpointPool, MaxEndpoints)
  /\ analyzed = <<>> /\ analyzePc = "start"
  /\ InferIdle /\ PlanIdle /\ ApplyIdle /\ SyncIdle /\ DiffIdle

Analyze ==
  /\ analyzePc = "start"
  /\ analyzed' = analyzeFolders(endpointList)
  /\ analyzePc' = "done"
  /\ UNCHANGED <<endpointList,
                 inferVars, planVars, applyVars, syncVars, diffVars>>

AnalyzeNext == Analyze

SpecAnalyze == AnalyzeInit /\ [][AnalyzeNext]_vars

\* how many times e is in the list
occurrences(list, e) == Cardinality({i \in 1..Len(list) : list[i] = e})

\* the sum of the sizes of the lists
RECURSIVE totalSize(_)
totalSize(lists) ==
  IF Len(lists) = 0 THEN 0 ELSE Len(lists[1]) + totalSize(Tail(lists))

\* the lists of the folders, in key order
folderLists(analysis) ==
  [i \in 1..Len(analysis.folders) |-> analysis.folders[i][2]]

\* the folder field and the operation's x-apidog-folder are absent or empty
noFolderAnywhere(ep) ==
  /\ ~truthy(ep.folder)
  /\ ~truthy(field(ep.operation, "x-apidog-folder"))

\* C18: analyzeFolders partitions its input: every endpoint of the list is
\* in exactly one of the folders' lists or in unfoldered, as many times as
\* in the input; totalEndpoints is the sum of the sizes of the folders'
\* lists plus the size of unfoldered, unfolderedCount is the size of
\* unfoldered, totalFolders the number of folder keys; an endpoint is in
\* unfoldered exactly when its folder field and its operation's
\* x-apidog-folder are both absent or empty.
C18_AnalyzePartitions ==
  analyzePc = "done" =>
    /\ \A k \in 1..Len(endpointList) :
         LET ep == endpointList[k]
             in == {i \in 1..Len(analyzed.folders) :
                      occurrences(analyzed.folders[i][2], ep) > 0}
         IN /\ IF occurrences(analyzed.unfoldered, ep) > 0
               THEN in = {}
                    /\ occurrences(analyzed.unfoldered, ep)
                         = occurrences(endpointList, ep)
               ELSE Cardinality(in) = 1
                    /\ \A i \in in :
                         occurrences(analyzed.folders[i][2], ep)
                           = occurrences(endpointList, ep)
            /\ occurrences(analyzed.unfoldered, ep) > 0 <=> noFolderAnywhere(ep)
    /\ analyzed.totalEndpoints =
         totalSize(folderLists(analyzed)) + Len(analyzed.unfoldered)
    /\ analyzed.totalEndpoints = Len(endpointList)
    /\ analyzed.unfolderedCount = Len(analyzed.unfoldered)
    /\ analyzed.totalFolders = Len(analyzed.folders)
    /\ \A i, j \in 1..Len(analyzed.folders) :
         i # j => analyzed.folders[i][1] # analyzed.folders[j][1]

\* two endpoints, one filed by its operation's folder alone, one unfoldered
C18_Witness ==
  /\ analyzePc = "done"
  /\ Len(endpointList) = 2
  /\ analyzed.totalFolders = 1 /\ analyzed.unfolderedCount = 1
  /\ \E k \in 1..2 : /\ ~truthy(endpointList[k].folder)
                     /\ ~noFolderAnywhere(endpointList[k])

(***************************************************************************)
(* The classification of the endpoints by proposeReorganization (Spec).    *)
(***************************************************************************)
\* the <<method, path>> of the entries of a list, in its order
methodPaths(list) == [i \in 1..Len(list) |-> <<list[i].method, list[i].path>>]

\* the endpoints a plan lists under one of its proposed folders
listedUnder(p, folder) ==
  IF hasKey(p.proposedFolders, folder) THEN get(p.proposedFolders, folder)
  ELSE <<>>

\* the endpoints whose current folder is the one the plan proposes for them
keepsFolder(p, endpoints) ==
  SelectSeq(endpoints, LAMBDA ep : currentFolderOf(ep) \in proposedFor(p, ep))

\* C21: proposeReorganization classifies every endpoint exactly once: an
\* endpoint of the input is in exactly one of changes and unchanged and in
\* the list of exactly one proposed folder, so that changesCount +
\* unchangedCount = totalEndpoints = the sum of the sizes of the lists of
\* proposedFolders; it is in unchanged exactly when its current folder is
\* its proposed folder; the lists follow the order of the input.
C21_ClassifiedOnce ==
  stage = "proposed" =>
    LET endpoints == parseEndpoints(document)
    IN /\ plan.totalEndpoints = Len(endpoints)
       /\ plan.changesCount = Len(plan.changes)
       /\ plan.unchangedCount = Len(plan.unchanged)
       /\ plan.changesCount + plan.unchangedCount = plan.totalEndpoints
       /\ totalSize([i \in 1..Len(plan.proposedFolders) |->
                       plan.proposedFolders[i][2]]) = plan.totalEndpoints
       /\ \A k \in 1..Len(endpoints) :
            LET ep == endpoints[k]
            IN /\ occurrences(methodPaths(plan.changes), <<ep.method, ep.path>>)
                    + occurrences(methodPaths(plan.unchanged),
                                  <<ep.method, ep.path>>) = 1
               /\ Cardinality(proposedFor(plan, ep)) = 1
               /\ \A f \in proposedFor(plan, ep) :
                    occurrences(listedUnder(plan, f), endpointRef(ep)) = 1
       /\ methodPaths(plan.unchanged) = methodPaths(keepsFolder(plan, endpoints))
       /\ methodPaths(plan.changes) =
            methodPaths(SelectSeq(endpoints,
              LAMBDA ep : currentFolderOf(ep) \notin proposedFor(plan, ep)))
       /\ \A i \in 1..Len(plan.proposedFolders) :
            plan.proposedFolders[i][2] =
              [j \in 1..Len(SelectSeq(endpoints,
                   LAMBDA ep : plan.proposedFolders[i][1] \in proposedFor(plan, ep)))
                 |-> endpointRef(SelectSeq(endpoints,
                   LAMBDA ep : plan.proposedFolders[i][1]
                                 \in proposedFor(plan, ep))[j])]

\* two endpoints, one that keeps its folder and one that moves
C21_Witness ==
  /\ stage = "proposed"
  /\ Len(parseEndpoints(document)) = 2
  /\ plan.changesCount = 1 /\ plan.unchangedCount = 1

(***************************************************************************)
(* What an empty list of changes tells (SpecDiff).                         *)
(***************************************************************************)
\* structural equality of two JSON values: the same members whatever their
\* order, the same elements in the same order
RECURSIVE sameJson(_, _)
sameJson(a, b) ==
  CASE tagOf(a) = "obj" /\ tagOf(b) = "obj" ->
         /\ {a[2][i][1] : i \in 1..Len(a[2])} = {b[2][i][1] : i \in 1..Len(b[2])}
         /\ \A i \in 1..Len(a[2]) : sameJson(a[2][i][2], prop(b, a[2][i][1]))
    [] tagOf(a) = "arr" /\ tagOf(b) = "arr" ->
         /\ Len(a[2]) = Len(b[2])
         /\ \A i \in 1..Len(a[2]) : sameJson(a[2][i], b[2][i])
    [] OTHER -> tagOf(a) = tagOf(b) /\ a = b

\* C22: an empty diff means no difference: when deepDiff(old, new) is the
\* empty list, old and new are structurally equal once the key
\* 'x-run-in-apidog' is removed from their objects; an empty list against
\* an empty object under the same key is reported.
C22_EmptyDiffMeansEqual ==
  (diffPc # "start" /\ diffChanges = <<>>) =>
    sameJson(withoutRunLinks(oldArg), withoutRunLinks(newArg))

=============================================================================
